---- MODULE Spec2Model ----
(***************************************************************************)
(* wa-hub: the rotating event logs written by the hub (RotatingStream,     *)
(* PerContactLogs), the rotation-aware tail of wa-sub, and the durable     *)
(* cursor store (load_since_state / save_since_state).                     *)
(*                                                                         *)
(* Environment faults that are modelled: a rename that fails, a process    *)
(* kill at any step.  The file system is POSIX: a handle names an inode,   *)
(* rename replaces an existing target atomically and frees its inode, and  *)
(* a freed inode number may be given to the next file that is created.     *)
(***************************************************************************)
EXTENDS Integers, Sequences, FiniteSets, TLC

\* ------------------------------------------------------------------ bounds
\* records appended by the hub's threads in one run
MaxRecs == 2
\* the largest offset the transport hands out
MaxSince == 2

\* ---------------------------------------------------------------- sequences
Range(q) == {q[i] : i \in DOMAIN q}
Restrict(q, S) == SelectSeq(q, LAMBDA x : x \in S)
MinOf(S) == CHOOSE x \in S : \A y \in S : x <= y

\* ------------------------------------------------------- shapes of the data
Threads == {"ingest", "dispatch"}
Keys == {"a", "b"}
Logs == {"global"} \cup Keys

\* One serialized record line, ofs << line.dump() << '\n': the two halves of
\* the JSON text and the newline.  A byte of record id is <<id, k>>.
LineBytes == <<"head", "tail", "nl">>
RecLen == Len(LineBytes)

\* two seconds of the clock: rotations fall in the same second or in different ones
Stamps == {1, 2}
\* path of log L is <<L, 0>>, its archive <path>.<stamp> is <<L, stamp>>
Names == Logs \X ({0} \cup Stamps)
Path(L) == <<L, 0>>
Arch(L, s) == <<L, s>>
\* every append creates at most one file per log
MaxIno == Cardinality(Logs) * (MaxRecs + 1)
Inodes == 1..MaxIno
\* rotation disabled, due after every record, due after every second record
Thresholds == {0, RecLen, 2 * RecLen}

VARIABLES
    \* file system
    dir,        \* name -> inode, 0 when the name does not exist
    data,       \* inode -> bytes
    nextIno,    \* lowest inode number never used
    freed,      \* inode numbers released by an overwritten file
    clock,      \* std::time(nullptr), seconds
    \* hub log writers
    threshold,  \* RotatorCfg.threshold per log
    peers,      \* peer keys of the events of this run
    ofs,        \* log -> inode its open ofstream writes to, 0 when closed / no entry
    mtx,        \* "global": RotatingStream::m, "pcl": PerContactLogs::m
    pc,         \* thread -> position
    cur,        \* thread -> the record it appends
    written,    \* thread -> bytes of the line already in the file
    stamp,      \* thread -> local "stamp" of the rotation in progress
    rot,        \* thread -> outcome of the rotation of the append in progress
    nextId,     \* next record id
    kinds,      \* thread -> kinds of the events it is given in this run
    recs,       \* record id -> the fields of its JSON object
    \* history
    serial,     \* log -> record ids in the order appends took the log's mutex
    flushed,    \* log -> record ids in the order their line was completely written
    rotAt,      \* log -> Len(flushed[log]) at the last successful rotation
    \* wa-sub, one tailing session on the Global log
    args,       \* Args: mode, kind filter, min-timestamp
    tpc,        \* position of the session
    cur_inode,  \* tracked file identity
    offset,     \* tracked byte offset
    ino,        \* local "ino" of the poll
    sz,         \* local "sz" of the poll
    pline,      \* the unterminated line std::getline returned at end of file
    out,        \* record ids of the lines emitted, in order
    exitcode,   \* -1 while the session runs
    expired,    \* now_ms() >= deadline_once / deadline_win
    \* history of the session
    tgen,       \* generation of the file whose identity the session took at its start
    fromZero,   \* the tracked generation is read from its first byte
    partialSeen, \* an unterminated line was passed to match_line
    \* the cursor-state file and the hub's ingestion loop
    sfs,        \* "state", "tmp" -> the file at state_path(c) and at state_path(c) + ".tmp"
    hpc,        \* position of the hub's main thread
    s0,         \* long long s0 of main
    since,      \* cursor of catch_up_all_history / since of main
    mode,       \* "CATCH_UP" inside catch_up_all_history, "LIVE" in the long-poll loop
    page0,      \* count == 0 in the page being processed
    rsp,        \* the response being processed: next_since, the events still to append
    sv,         \* save_since_state: its argument since
    su,         \* save_since_state: now_ms() of "updated"
    \* history of the cursor store
    saved,      \* the value of the last save_since_state that returned, while no later call
    killed,     \* the last call of save_since_state: the value stored before it, its
                \* argument, and whether the process was killed before it returned
    called,     \* the values save_since_state was called with
    start,      \* what load_since_state returned at startup and the state main began in
    hist,       \* the transport calls of this run of the hub
    \* the transport
    textual,    \* its events are text messages (they decode to records)
    evrec,      \* record id -> the transport event it was decoded from
    \* wa-sub reading a file of arbitrary lines
    mfile,      \* the lines of the file
    mfilt,      \* the Filter of the session
    mpos,       \* lines read so far
    mres,       \* what match_line gave for each line read
    mst,        \* "reading", "eof", or "aborted" (an exception left main)
    \* wa-sub starting
    cmdline,    \* the options on the command line
    ast,        \* "start", "parsed", "run", "opened", "exit2", or "abort"
    \* the hub's sender thread
    dpc,        \* its position in the loop
    fifo,       \* the lines waiting in the outbound pipe
    dcmd,       \* the request line being handled
    dresp,      \* the answer of the transport to the send
    drec,       \* the record appended for the request (0: none)
    aliases,    \* the aliases file maps alias "a" to number "b"
    \* the hub's receiver loop over one envelope
    epc,        \* its position in the loop
    eresp,      \* the response being processed
    eidx,       \* the index of the next message or status to process
    erec,       \* the record appended for each of them (0: none)
    esince,     \* the cursor in memory and in the state file
    \* the hub's start with a Global log that may not open
    bpc,        \* the position of main
    gcan,       \* "ok", "nodir" (its directory cannot be made), "nofile" (it cannot be opened)
    metaok,     \* the meta log can be opened
    gopen,      \* RotatingStream::ofs of the Global log is open
    bcalls,     \* the pulls and long-polls issued
    bsaved,     \* a cursor has been persisted
    blost,      \* the appends that wrote nothing
    startfail,  \* the Global log did not open when the hub started
    \* wa-runner: one call of run_argv
    rpc,        \* the position of run_argv
    child,      \* what the command does, and on which descriptor
    kst,        \* the child: "run", "exited" or "killed"
    kwrote,     \* the child has written
    pavail,     \* the pipes that hold unread bytes
    rset,       \* the descriptors select reported readable
    elapsed,    \* the seconds since t0
    timeout_sec, \* the command timeout
    \* wa-runner: the event loop on one event
    qpc,        \* the position in the loop body
    qev,        \* the line read from wa-sub
    cmdmap,     \* commands.json
    auto_reply, \* --auto-reply with --fifo
    qspawned,   \* the processes spawned for the event
    qlog,       \* the rc of the records written to the runner log for it
    qreply,     \* the replies sent for it
    \* history of a tailing session
    startIds,   \* the records whole in the file when the session took its start position
    startNext,  \* the id of the first record begun after that (0: not started)
    scanOff,    \* the offset after the last line of the historical scan (-1: no scan yet)
    cut,        \* "pending": the tracked file was cut below the offset between two polls and not read since
    \* the hub's send pipe
    fpc,        \* the position of main around the opening of the pipe
    extw,       \* some other process has the pipe open for writing
    \* alias resolution
    atab,       \* the aliases file: alias -> identifier, "absent" without entry
    ain,        \* the peer target given to wa-sub
    akey,       \* the key wa-sub resolved ("none": not yet)
    hkey        \* the key the hub writes that peer's records under ("none": not yet)

fsVars == <<dir, data, nextIno, freed>>
cfgVars == <<threshold, peers, kinds>>
wrVars == <<ofs, mtx, pc, cur, written, stamp, rot, nextId, recs>>
histVars == <<serial, flushed, rotAt>>
logVars == <<fsVars, clock, cfgVars, wrVars, histVars>>
tailVars == <<args, tpc, cur_inode, offset, ino, sz, pline, out, exitcode, expired,
              tgen, fromZero, partialSeen>>
hubVars == <<hpc, s0, since, mode, page0, rsp, sv, su>>
curVars == <<sfs, hubVars, saved, killed, called, start, hist, textual, evrec>>
subVars == <<mfile, mfilt, mpos, mres, mst>>
argVars == <<cmdline, ast>>
dispVars == <<dpc, fifo, dcmd, dresp, drec, aliases>>
envVars == <<epc, eresp, eidx, erec, esince>>
startVars == <<bpc, gcan, metaok, gopen, bcalls, bsaved, blost, startfail>>
runVars == <<rpc, child, kst, kwrote, pavail, rset, elapsed, timeout_sec>>
loopVars == <<qpc, qev, cmdmap, auto_reply, qspawned, qlog, qreply>>
ghostVars == <<startIds, startNext, scanOff, cut>>
fifoVars == <<fpc, extw>>
aliasVars == <<atab, ain, akey, hkey>>
lateVars == <<ghostVars, fifoVars, aliasVars>>
auxVars == <<subVars, argVars, dispVars, envVars, startVars, runVars, loopVars, lateVars>>

\* --------------------------------------------------------------- file system
Exists(n) == dir[n] # 0
Content(n) == IF dir[n] = 0 THEN <<>> ELSE data[dir[n]]

\* the inode numbers the file system may give to a new file
AllocChoices == {nextIno} \cup freed

\* (variant of ofstream_open_app that opens with std::ios::trunc)
ofstream_open_trunc(L, i) ==
    /\ ofs' = [ofs EXCEPT ![L] = IF Exists(Path(L)) THEN dir[Path(L)] ELSE i]
    /\ dir' = [dir EXCEPT ![Path(L)] = IF Exists(Path(L)) THEN @ ELSE i]
    /\ data' = [data EXCEPT ![IF Exists(Path(L)) THEN dir[Path(L)] ELSE i] = <<>>]
    /\ nextIno' = IF ~Exists(Path(L)) /\ i = nextIno THEN nextIno + 1 ELSE nextIno
    /\ freed' = IF Exists(Path(L)) THEN freed ELSE freed \ {i}

\* std::ofstream::open(path, std::ios::app) on the path of log L: opens the
\* file, creating it (inode i) when it does not exist; never truncates.
ofstream_open_app(L, i) ==
    IF Exists(Path(L))
    THEN /\ ofs' = [ofs EXCEPT ![L] = dir[Path(L)]]
         /\ UNCHANGED fsVars
    ELSE /\ ofs' = [ofs EXCEPT ![L] = i]
         /\ dir' = [dir EXCEPT ![Path(L)] = i]
         /\ data' = [data EXCEPT ![i] = <<>>]
         /\ nextIno' = IF i = nextIno THEN nextIno + 1 ELSE nextIno
         /\ freed' = freed \ {i}

\* fs::rename(path, arch, ec) with ec clear: arch names the file that was at
\* path; a file that arch named before is replaced and its inode released.
fs_rename(L, s) ==
    /\ dir' = [dir EXCEPT ![Arch(L, s)] = dir[Path(L)], ![Path(L)] = 0]
    /\ data' = IF Exists(Arch(L, s)) THEN [data EXCEPT ![dir[Arch(L, s)]] = <<>>] ELSE data
    /\ freed' = IF Exists(Arch(L, s)) THEN freed \cup {dir[Arch(L, s)]} ELSE freed
    /\ UNCHANGED nextIno

\* fs::file_size(path, ec)
fs_file_size(L) == Len(Content(Path(L)))

\* timefmt_now(cfg.timefmt): the formatted second of the clock
timefmt_now == clock

\* ------------------------------------------------------------ RotatingStream
\* (variant of lock_guard that does not wait for the mutex)
lock_guard_nomutex(m) == TRUE

\* std::lock_guard<std::mutex> lk(m)

lock_guard(m) == mtx[m] = "none"

\* (variant of RS_needs_rotation that compares with > instead of >=)
RS_needs_rotation_gt == threshold["global"] # 0 /\ fs_file_size("global") > threshold["global"]

\* (variant of RS_needs_rotation without the test of threshold == 0)
RS_needs_rotation_always == fs_file_size("global") >= threshold["global"]

\* rotate_unlocked: if(cfg.threshold==0) return; if(sz < cfg.threshold) return;
RS_needs_rotation == threshold["global"] # 0 /\ fs_file_size("global") >= threshold["global"]

\* the byte a thread writes next
NextByte(t) == <<cur[t].id, written[t] + 1>>

\* json ev = { {"ts", now_ms()}, {"kind", ...}, {"peer", peer}, ... };
\* global.append(ev); pcl.append(peer, ev);  The record ids count the successive
\* readings of now_ms().
Begin(t) ==
    /\ pc[t] = "idle"
    /\ nextId <= MaxRecs
    /\ \E k \in peers : cur' = [cur EXCEPT ![t] = [id |-> nextId, key |-> k]]
    /\ \E kd \in kinds[t] : recs' = [recs EXCEPT ![nextId] = [kind |-> kd, ts |-> nextId]]
    /\ nextId' = nextId + 1
    /\ pc' = [pc EXCEPT ![t] = "g_lock"]
    /\ rot' = [rot EXCEPT ![t] = "none"]
    /\ UNCHANGED <<fsVars, clock, cfgVars, ofs, mtx, written, stamp, histVars>>

\* RotatingStream::append: lock, open_append_unlocked
RS_Lock(t) ==
    /\ pc[t] = "g_lock"
    /\ lock_guard("global")
    /\ mtx' = [mtx EXCEPT !["global"] = t]
    /\ IF ofs["global"] # 0
       THEN UNCHANGED <<fsVars, ofs>>
       ELSE \E i \in AllocChoices : ofstream_open_app("global", i)
    /\ serial' = [serial EXCEPT !["global"] = Append(@, cur[t].id)]
    /\ written' = [written EXCEPT ![t] = 0]
    /\ pc' = [pc EXCEPT ![t] = "g_write"]
    /\ UNCHANGED <<clock, cfgVars, cur, recs, stamp, rot, nextId, flushed, rotAt>>

\* ofs << line.dump() << '\n'; ofs.flush(): the bytes reach the file in order,
\* one step per byte (a reader may see any prefix of the line)
RS_Write(t) ==
    /\ pc[t] = "g_write"
    /\ ofs["global"] # 0
    /\ data' = [data EXCEPT ![ofs["global"]] = Append(@, NextByte(t))]
    /\ written' = [written EXCEPT ![t] = @ + 1]
    /\ IF written[t] + 1 = RecLen
       THEN /\ pc' = [pc EXCEPT ![t] = "g_rot"]
            /\ flushed' = [flushed EXCEPT !["global"] = Append(@, cur[t].id)]
       ELSE UNCHANGED <<pc, flushed>>
    /\ UNCHANGED <<dir, nextIno, freed, clock, cfgVars, ofs, mtx, cur, recs, stamp, rot,
                   nextId, serial, rotAt>>

\* rotate_unlocked up to the rename; append returns when no rotation is due
RS_Rotate(t) ==
    /\ pc[t] = "g_rot"
    /\ IF ~RS_needs_rotation
       THEN /\ mtx' = [mtx EXCEPT !["global"] = "none"]
            /\ pc' = [pc EXCEPT ![t] = "p_lock"]
            /\ UNCHANGED <<fsVars, ofs, stamp, rot, rotAt>>
       ELSE /\ stamp' = [stamp EXCEPT ![t] = timefmt_now]
            /\ ofs' = [ofs EXCEPT !["global"] = 0]
            /\ pc' = [pc EXCEPT ![t] = "g_reopen"]
            /\ \/ /\ Exists(Path("global"))
                  /\ fs_rename("global", timefmt_now)
                  /\ rot' = [rot EXCEPT ![t] = "renamed"]
                  /\ rotAt' = [rotAt EXCEPT !["global"] = Len(flushed["global"])]
               \/ /\ rot' = [rot EXCEPT ![t] = "failed"]
                  /\ UNCHANGED <<fsVars, rotAt>>
            /\ UNCHANGED mtx
    /\ UNCHANGED <<clock, cfgVars, cur, recs, written, nextId, serial, flushed>>

\* rotate_unlocked: ofs.open(path, std::ios::app); append returns
RS_Reopen(t) ==
    /\ pc[t] = "g_reopen"
    /\ \E i \in AllocChoices : ofstream_open_app("global", i)
    /\ mtx' = [mtx EXCEPT !["global"] = "none"]
    /\ pc' = [pc EXCEPT ![t] = "p_lock"]
    /\ UNCHANGED <<clock, cfgVars, cur, recs, written, stamp, rot, nextId, histVars>>

\* ------------------------------------------------------------ PerContactLogs
\* rotate_if_needed_unlocked: if(rcfg.threshold==0) return;
\* if(ec || sz < rcfg.threshold) return;
PCL_needs_rotation(k) ==
    /\ threshold[k] # 0
    /\ Exists(Path(k))
    /\ fs_file_size(k) >= threshold[k]

\* PerContactLogs::append: lock, find the entry of the key or create it
PCL_Lock(t) ==
    /\ pc[t] = "p_lock"
    /\ lock_guard("pcl")
    /\ mtx' = [mtx EXCEPT !["pcl"] = t]
    /\ IF ofs[cur[t].key] # 0
       THEN UNCHANGED <<fsVars, ofs>>
       ELSE \E i \in AllocChoices : ofstream_open_app(cur[t].key, i)
    /\ serial' = [serial EXCEPT ![cur[t].key] = Append(@, cur[t].id)]
    /\ written' = [written EXCEPT ![t] = 0]
    /\ pc' = [pc EXCEPT ![t] = "p_write"]
    /\ UNCHANGED <<clock, cfgVars, cur, recs, stamp, rot, nextId, flushed, rotAt>>

\* *(it->second.f) << line.dump() << '\n'; it->second.f->flush();
PCL_Write(t) ==
    /\ pc[t] = "p_write"
    /\ ofs[cur[t].key] # 0
    /\ data' = [data EXCEPT ![ofs[cur[t].key]] = Append(@, NextByte(t))]
    /\ written' = [written EXCEPT ![t] = @ + 1]
    /\ IF written[t] + 1 = RecLen
       THEN /\ pc' = [pc EXCEPT ![t] = "p_rot"]
            /\ flushed' = [flushed EXCEPT ![cur[t].key] = Append(@, cur[t].id)]
       ELSE UNCHANGED <<pc, flushed>>
    /\ UNCHANGED <<dir, nextIno, freed, clock, cfgVars, ofs, mtx, cur, recs, stamp, rot,
                   nextId, serial, rotAt>>

\* rotate_if_needed_unlocked up to the rename
PCL_Rotate(t) ==
    /\ pc[t] = "p_rot"
    /\ LET k == cur[t].key IN
       IF ~PCL_needs_rotation(k)
       THEN /\ mtx' = [mtx EXCEPT !["pcl"] = "none"]
            /\ pc' = [pc EXCEPT ![t] = "idle"]
            /\ UNCHANGED <<fsVars, ofs, stamp, rot, rotAt>>
       ELSE /\ stamp' = [stamp EXCEPT ![t] = timefmt_now]
            /\ ofs' = [ofs EXCEPT ![k] = 0]
            /\ pc' = [pc EXCEPT ![t] = "p_reopen"]
            /\ \/ /\ fs_rename(k, timefmt_now)
                  /\ rot' = [rot EXCEPT ![t] = "renamed"]
                  /\ rotAt' = [rotAt EXCEPT ![k] = Len(flushed[k])]
               \/ /\ rot' = [rot EXCEPT ![t] = "failed"]
                  /\ UNCHANGED <<fsVars, rotAt>>
            /\ UNCHANGED mtx
    /\ UNCHANGED <<clock, cfgVars, cur, recs, written, nextId, serial, flushed>>

\* e.f = std::make_unique<std::ofstream>(e.path, std::ios::app); append returns
PCL_Reopen(t) ==
    /\ pc[t] = "p_reopen"
    /\ \E i \in AllocChoices : ofstream_open_app(cur[t].key, i)
    /\ mtx' = [mtx EXCEPT !["pcl"] = "none"]
    /\ pc' = [pc EXCEPT ![t] = "idle"]
    /\ UNCHANGED <<clock, cfgVars, cur, recs, written, stamp, rot, nextId, histVars>>

\* -------------------------------------------------------------------- wa-sub
\* the file a session tails: the Global log
target == "global"

\* the generation of the file at the path of L: its number of records written
\* before the file was created; -1 while the path does not exist
GenAtPath(L) == IF Exists(Path(L)) THEN rotAt[L] ELSE -1

\* inode_of(p): st_ino, 0 when stat fails
inode_of(L) == dir[Path(L)]

\* size_of(p): st_size, 0 when stat fails
size_of(L) == Len(Content(Path(L)))

\* (variant of a_once for a session that never stops at a match)
a_once_never == FALSE

\* (variant of a_once for a session that always stops at a match)
a_once_always == TRUE

\* a.once: --once was given
a_once == args.mode = "once"

\* json::parse(raw, nullptr, false) is not discarded: raw is the whole JSON
\* text of one record
Parses(raw) ==
    /\ Len(raw) = RecLen - 1
    /\ \A k \in DOMAIN raw : raw[k] = <<raw[1][1], k>>

\* match_line(raw, filt) with filt = make_filter(a)
match_line(raw) ==
    /\ Parses(raw)
    /\ (args.kind # "" => recs[raw[1][1]].kind = args.kind)
    /\ (args.has_since => recs[raw[1][1]].ts >= args.since_ts)

\* the positions of the newlines of c after offset p
Newlines(c, p) == {q \in (p + 1)..Len(c) : c[q][2] = RecLen}

\* while(std::getline(f, line)) over the terminated lines of c from offset p:
\* the ids emitted, the offset after the last line read, and whether the loop
\* stopped at a match of a single-match session
RECURSIVE ReadLines(_, _, _)
ReadLines(c, p, acc) ==
    IF Newlines(c, p) = {}
    THEN [out |-> acc, off |-> p, hit |-> FALSE]
    ELSE LET q == MinOf(Newlines(c, p))
             line == SubSeq(c, p + 1, q - 1)
         IN IF match_line(line)
            THEN IF a_once
                 THEN [out |-> Append(acc, line[1][1]), off |-> q, hit |-> TRUE]
                 ELSE ReadLines(c, q, Append(acc, line[1][1]))
            ELSE ReadLines(c, q, acc)

\* while(!fs::exists(target)) usleep(200*1000);
T_Wait ==
    /\ tpc = "s_wait"
    /\ Exists(Path(target))
    /\ tpc' = "s_inode"
    /\ UNCHANGED <<args, cur_inode, offset, ino, sz, pline, out, exitcode, expired,
                   tgen, fromZero, partialSeen>>

\* uint64_t cur_inode = inode_of(target);
T_Inode ==
    /\ tpc = "s_inode"
    /\ cur_inode' = inode_of(target)
    /\ tgen' = GenAtPath(target)
    /\ tpc' = "s_size"
    /\ UNCHANGED <<args, offset, ino, sz, pline, out, exitcode, expired, fromZero, partialSeen>>

\* if(a.since_ts) offset = 0; else offset = size_of(target);
T_Start ==
    /\ tpc = "s_size"
    /\ offset' = IF args.has_since THEN 0 ELSE size_of(target)
    /\ fromZero' = args.has_since
    /\ tpc' = IF args.has_since THEN "scan" ELSE "m_top"
    /\ UNCHANGED <<args, cur_inode, ino, sz, pline, out, exitcode, expired,
                   tgen, partialSeen>>

\* historical scan: std::ifstream f(target); while(std::getline(f,line)) ...
\* The file is read as it is at this moment; an unterminated last line is
\* returned by getline like any other line.
T_Scan ==
    /\ tpc = "scan"
    /\ LET c == Content(Path(target))
           r == ReadLines(c, 0, <<>>)
           rest == SubSeq(c, r.off + 1, Len(c))
           more == ~r.hit /\ rest # <<>>
           hitp == more /\ match_line(rest)
       IN /\ out' = out \o r.out \o (IF hitp THEN <<rest[1][1]>> ELSE <<>>)
          /\ partialSeen' = (partialSeen \/ more)
          /\ IF r.hit \/ (hitp /\ a_once)
             THEN tpc' = "done" /\ exitcode' = 0
             ELSE tpc' = "scan_end" /\ UNCHANGED exitcode
    /\ UNCHANGED <<args, cur_inode, offset, ino, sz, pline, expired, tgen, fromZero>>

\* offset = (uint64_t)f.tellg(); if((long long)offset<0) offset = size_of(target);
\* the loop has ended with failbit set, so tellg() is -1
T_ScanEnd ==
    /\ tpc = "scan_end"
    /\ offset' = size_of(target)
    /\ tpc' = "m_top"
    /\ UNCHANGED <<args, cur_inode, ino, sz, pline, out, exitcode, expired,
                   tgen, fromZero, partialSeen>>

\* main loop head: the two deadline checks, then fs::exists(target)
T_Top ==
    /\ tpc = "m_top"
    /\ IF a_once /\ expired
       THEN tpc' = "done" /\ exitcode' = 1
       ELSE IF args.mode = "window" /\ expired
       THEN tpc' = "done" /\ exitcode' = 0
       ELSE /\ Exists(Path(target))
            /\ tpc' = "m_ino"
            /\ UNCHANGED exitcode
    /\ UNCHANGED <<args, cur_inode, offset, ino, sz, pline, out, expired,
                   tgen, fromZero, partialSeen>>

\* uint64_t ino = inode_of(target);
T_Ino ==
    /\ tpc = "m_ino"
    /\ ino' = inode_of(target)
    /\ tpc' = "m_size"
    /\ UNCHANGED <<args, cur_inode, offset, sz, pline, out, exitcode, expired,
                   tgen, fromZero, partialSeen>>

\* (variant of Rotated that tests the identity only)
Rotated_ino_only(i, n) == i # cur_inode

\* if(ino != cur_inode || sz < offset)
Rotated(i, n) == i # cur_inode \/ n < offset

\* uint64_t sz = size_of(target);  (ino and sz are locals of one iteration)
\* if(ino != cur_inode || sz < offset){ cur_inode = ino; offset = 0; }
\* if(sz > offset) read, else usleep(200*1000)
T_Size ==
    /\ tpc = "m_size"
    /\ LET n == size_of(target)
           o == IF Rotated(ino, n) THEN 0 ELSE offset
       IN /\ sz' = IF n > o THEN n ELSE 0
          /\ offset' = o
          /\ cur_inode' = IF Rotated(ino, n) THEN ino ELSE cur_inode
          /\ fromZero' = (Rotated(ino, n) \/ fromZero)
          /\ tpc' = IF n > o THEN "m_read" ELSE "m_top"
    /\ ino' = 0
    /\ UNCHANGED <<args, pline, out, exitcode, expired, tgen, partialSeen>>

\* std::ifstream f(target); f.seekg(offset); while(std::getline(f,line)){
\*   offset = f.tellg(); ... if(match_line(line,filt)){ emit; if(a.once) return 0; } }
\* over the terminated lines; an unterminated last line is handled by T_Partial
T_Read ==
    /\ tpc = "m_read"
    /\ LET c == Content(Path(target))
           r == ReadLines(c, offset, <<>>)
           rest == SubSeq(c, r.off + 1, Len(c))
       IN /\ out' = out \o r.out
          /\ offset' = r.off
          /\ sz' = 0
          /\ IF r.hit
             THEN tpc' = "done" /\ exitcode' = 0 /\ UNCHANGED pline
             ELSE IF rest # <<>>
             THEN tpc' = "m_partial" /\ pline' = rest /\ UNCHANGED exitcode
             ELSE tpc' = "m_top" /\ UNCHANGED <<exitcode, pline>>
    /\ UNCHANGED <<args, cur_inode, ino, expired, tgen, fromZero, partialSeen>>

\* getline has returned the unterminated last line and set eofbit:
\* offset = f.tellg() is -1, so offset = size_of(target); then match_line(line)
T_Partial ==
    /\ tpc = "m_partial"
    /\ offset' = size_of(target)
    /\ partialSeen' = TRUE
    /\ pline' = <<>>
    /\ IF match_line(pline)
       THEN /\ out' = Append(out, pline[1][1])
            /\ IF a_once
               THEN tpc' = "done" /\ exitcode' = 0
               ELSE tpc' = "m_top" /\ UNCHANGED exitcode
       ELSE tpc' = "m_top" /\ UNCHANGED <<out, exitcode>>
    /\ UNCHANGED <<args, cur_inode, ino, sz, expired, tgen, fromZero>>

\* the clock of now_ms() reaches the session's deadline
T_Deadline ==
    /\ args.mode \in {"once", "window"}
    /\ tpc \notin {"done", "s_wait", "s_inode", "s_size"}
    /\ ~expired
    /\ expired' = TRUE
    /\ UNCHANGED <<args, tpc, cur_inode, offset, ino, sz, pline, out, exitcode,
                   tgen, fromZero, partialSeen>>

\* ------------------------------------------------------------- cursor store
\* The text of a JSON document is a sequence of tokens.
Sym(c) == [k |-> "sym", s |-> c, n |-> 0]
Key(c) == [k |-> "key", s |-> c, n |-> 0]
Int_(v) == [k |-> "int", s |-> "", n |-> v]
\* the number v + 0.5
Flt(v) == [k |-> "float", s |-> "", n |-> v]
Str(c) == [k |-> "str", s |-> c, n |-> 0]
Null == [k |-> "null", s |-> "", n |-> 0]
Bool(b) == [k |-> "bool", s |-> "", n |-> IF b THEN 1 ELSE 0]

IsScalar(tok) == tok.k \in {"int", "float", "str", "null", "bool"}

\* (variant of dump that serializes another cursor)
dump_other(v, u) ==
    <<Sym("{"), Key("since"), Int_(v + 1), Key("updated"), Int_(u), Sym("}")>>

\* json j={{"since",since},{"updated",now_ms()}}; j.dump()
dump(v, u) ==
    <<Sym("{"), Key("since"), Int_(v), Key("updated"), Int_(u), Sym("}")>>

DumpLen == Len(dump(0, 0))

\* the text is one JSON object: "{", then keys each followed by a scalar, then "}"
IsObjectText(t) ==
    /\ Len(t) >= 2
    /\ Len(t) % 2 = 0
    /\ t[1] = Sym("{")
    /\ t[Len(t)] = Sym("}")
    /\ \A i \in 2..(Len(t) - 1) :
          IF i % 2 = 0 THEN t[i].k = "key" ELSE IsScalar(t[i])

IsArrayText(t) == t = <<Sym("["), Sym("]")>>

IsScalarText(t) == Len(t) = 1 /\ IsScalar(t[1])

\* f>>j does not throw
ParsesJson(t) == IsObjectText(t) \/ IsArrayText(t) \/ IsScalarText(t)

HasKey(t, c) == \E i \in 2..(Len(t) - 1) : t[i] = Key(c)

Field(t, c) == t[(CHOOSE i \in 2..(Len(t) - 1) : t[i] = Key(c)) + 1]

Returned(v) == [thrown |-> FALSE, v |-> v]
Thrown == [thrown |-> TRUE, v |-> 0]

\* j.value("since", -1LL): the default when the key is missing; a number or a
\* boolean converted to long long; json::type_error for any other value
json_value_since(t) ==
    IF ~HasKey(t, "since") THEN Returned(-1)
    ELSE LET x == Field(t, "since") IN
         IF x.k \in {"int", "float", "bool"} THEN Returned(x.n) ELSE Thrown

\* load_since_state(c) on the file f
load_of(f) ==
    IF ~f.ex THEN Returned(-1)
    ELSE IF ~ParsesJson(f.text) THEN Returned(-1)
    ELSE IF ~IsObjectText(f.text) THEN Returned(-1)
    ELSE json_value_since(f.text)

load_since_state == load_of(sfs["state"])

\* (variant of tmp_path that writes in place)
tmp_path_inplace == "state"

\* fs::path tmp = p; tmp += ".tmp";
tmp_path == "tmp"

NoFile == [ex |-> FALSE, text |-> <<>>]

SavePcs == {"sv_open", "sv_write", "sv_rename", "sv_ret"}

\* save_since_state(c, v) is called: j is built with now_ms()
SaveCall(v) ==
    /\ sv' = v
    /\ su' = clock
    /\ hpc' = "sv_open"
    /\ saved' = [has |-> FALSE, v |-> 0]
    /\ killed' = [in |-> FALSE, prior |-> load_since_state.v, v |-> v]
    /\ called' = called \cup {v}

\* what a transport call brought in this run: the since of each pull, the
\* pages pulled, the cursors catch-up has put in the cursor-state file, how
\* catch-up went, the last response, and whether a backoff followed it
NoResp == [kind |-> "none", code |-> 0, json |-> FALSE]
NoHist ==
    [pulls |-> <<>>, pages |-> <<>>, saves |-> <<>>, cu |-> "none",
     resp |-> NoResp, slept |-> FALSE]

\* long long s0 = load_since_state(cfg); an exception leaves main
H_Load ==
    /\ hpc = "boot"
    /\ LET r == load_since_state IN
       IF r.thrown
       THEN /\ hpc' = "terminated"
            /\ UNCHANGED <<s0, start>>
       ELSE /\ hpc' = "loaded"
            /\ s0' = r.v
            /\ start' = [ret |-> r.v, mode |-> "none"]
    /\ UNCHANGED <<sfs, since, mode, page0, rsp, sv, su, saved, killed, called, hist,
                   textual, evrec>>

\* if(s0 < 0){ s0 = catch_up_all_history(cfg, global, pcl); }   long long cursor = 0;
H_Start ==
    /\ hpc = "loaded"
    /\ IF s0 < 0
       THEN mode' = "CATCH_UP" /\ since' = 0 /\ hpc' = "pull"
       ELSE mode' = "LIVE" /\ since' = s0 /\ hpc' = "lp"
    /\ start' = [start EXCEPT !.mode = IF s0 < 0 THEN "CATCH_UP" ELSE "LIVE"]
    /\ hist' = [hist EXCEPT !.cu = IF s0 < 0 THEN "running" ELSE "none"]
    /\ UNCHANGED <<sfs, s0, page0, rsp, sv, su, saved, killed, called, textual, evrec>>

\* the transport's offsets
Offsets == 0..MaxSince

\* catch-up pulls at most this many pages that report count > 0
MaxPages == MaxSince

\* the HTTP status of a response (0: the request itself failed)
HttpCodes == {0, 200, 500}

\* (variant of http_ok that takes every status for a success)
http_ok_any(code) == TRUE

\* code/100 == 2
http_ok(code) == code \div 100 = 2

\* a transport call that failed: a non-success status, or a body that
\* json::parse discards
Failed(r) == r.kind # "none" /\ (r.code \div 100 # 2 \/ ~r.json)

\* the events a response to since = s with next_since = n carries: the
\* transport's events s+1 .. n, which decode to records when they are text
\* messages
Batch(s, n) == [next |-> n, lo |-> s + 1, hi |-> IF textual THEN n ELSE s]

\* catch_up_all_history, a page that is pulled and parsed:
\* process_envelope_and_log(j, A, global, pcl) comes next
H_Pull ==
    /\ hpc = "pull"
    /\ \E next \in Offsets, zero \in BOOLEAN, code \in HttpCodes :
          /\ http_ok(code)
          /\ ~zero => Len(hist.pages) < MaxPages
          /\ page0' = zero
          /\ rsp' = Batch(since, next)
          /\ hist' = [hist EXCEPT !.pulls = Append(@, since),
                                  !.pages = Append(@, [next |-> next, zero |-> zero]),
                                  !.resp = [kind |-> "pull", code |-> code, json |-> TRUE],
                                  !.slept = FALSE]
    /\ hpc' = "append"
    /\ UNCHANGED <<sfs, s0, since, mode, sv, su, saved, killed, called, start, textual, evrec>>

\* catch_up_all_history, a pull with a non-2xx status or a discarded body:
\* break; return cursor; and main goes on to the receiver loop with s0 = cursor
H_PullFail ==
    /\ hpc = "pull"
    /\ \E code \in HttpCodes, good \in BOOLEAN :
          /\ ~(http_ok(code) /\ good)
          /\ hist' = [hist EXCEPT !.pulls = Append(@, since),
                                  !.cu = "failed",
                                  !.resp = [kind |-> "pull", code |-> code, json |-> good],
                                  !.slept = FALSE]
    /\ hpc' = "lp"
    /\ mode' = "LIVE"
    /\ s0' = since
    /\ UNCHANGED <<sfs, since, page0, rsp, sv, su, saved, killed, called, start, textual, evrec>>

\* the receiver loop, a long-poll with a 2xx status and a body that parses:
\* next_since = j.value("next_since", since); process_envelope_and_log comes next
H_LongPoll ==
    /\ hpc = "lp"
    /\ \E next \in Offsets, code \in HttpCodes :
          /\ http_ok(code)
          /\ rsp' = Batch(since, next)
          /\ hist' = [NoHist EXCEPT !.resp = [kind |-> "lp", code |-> code, json |-> TRUE]]
    /\ hpc' = "append"
    /\ UNCHANGED <<sfs, s0, since, mode, page0, sv, su, saved, killed, called, start,
                   textual, evrec>>

\* the receiver loop, if(code/100!=2){ std::cerr<<...; sleep_for(250ms); continue; }
H_LpFail ==
    /\ hpc = "lp"
    /\ \E code \in HttpCodes, good \in BOOLEAN :
          /\ ~http_ok(code)
          /\ hist' = [NoHist EXCEPT !.resp = [kind |-> "lp", code |-> code, json |-> good]]
    /\ hpc' = "lp_sleep"
    /\ UNCHANGED <<sfs, s0, since, mode, page0, rsp, sv, su, saved, killed, called, start,
                   textual, evrec>>

\* the receiver loop, if(j.is_discarded()) continue;
H_LpBad ==
    /\ hpc = "lp"
    /\ \E code \in HttpCodes :
          /\ http_ok(code)
          /\ hist' = [NoHist EXCEPT !.resp = [kind |-> "lp", code |-> code, json |-> FALSE]]
    /\ hpc' = "lp"
    /\ UNCHANGED <<sfs, s0, since, mode, page0, rsp, sv, su, saved, killed, called, start,
                   textual, evrec>>

\* std::this_thread::sleep_for(std::chrono::milliseconds(250)) has elapsed
H_Backoff ==
    /\ hpc = "lp_sleep"
    /\ hpc' = "lp"
    /\ hist' = [hist EXCEPT !.slept = TRUE]
    /\ UNCHANGED <<sfs, s0, since, mode, page0, rsp, sv, su, saved, killed, called, start,
                   textual, evrec>>

\* process_envelope_and_log, one text message of the response: ev is built
\* and global.append(ev); pcl.append(peer, ev); follow on the main thread
H_Event ==
    /\ hpc = "append"
    /\ rsp.lo <= rsp.hi
    /\ Begin("ingest")
    /\ evrec' = [evrec EXCEPT ![nextId] = rsp.lo]
    /\ rsp' = [rsp EXCEPT !.lo = @ + 1]
    /\ UNCHANGED <<sfs, hpc, s0, since, mode, page0, sv, su, saved, killed, called, start,
                   hist, textual>>

\* process_envelope_and_log has returned: cursor = next_since (since.store in
\* the receiver loop); save_since_state(c, cursor);
H_Persist ==
    /\ hpc = "append"
    /\ rsp.lo > rsp.hi
    /\ pc["ingest"] = "idle"
    /\ since' = rsp.next
    /\ SaveCall(rsp.next)
    /\ UNCHANGED <<sfs, s0, mode, page0, rsp, start, hist, textual, evrec>>

\* std::ofstream o(tmp, std::ios::trunc);
S_Open ==
    /\ hpc = "sv_open"
    /\ sfs' = [sfs EXCEPT ![tmp_path] = [ex |-> TRUE, text |-> <<>>]]
    /\ hpc' = "sv_write"
    /\ UNCHANGED <<s0, since, mode, page0, rsp, sv, su, saved, killed, called, start, hist,
                   textual, evrec>>

\* o<<j.dump(); o.flush();  the text reaches the file piece by piece
S_Write ==
    /\ hpc = "sv_write"
    /\ LET n == Len(sfs[tmp_path].text) + 1 IN
       /\ sfs' = [sfs EXCEPT ![tmp_path].text = Append(@, dump(sv, su)[n])]
       /\ hpc' = IF n = DumpLen THEN "sv_rename" ELSE "sv_write"
    /\ UNCHANGED <<s0, since, mode, page0, rsp, sv, su, saved, killed, called, start, hist,
                   textual, evrec>>

\* fs::rename(tmp, p, ec): tmp replaces p in one step, or ec is set and
\* nothing changes
S_Rename ==
    /\ hpc = "sv_rename"
    /\ \/ /\ sfs' = IF tmp_path = "state" THEN sfs
                    ELSE [sfs EXCEPT !["state"] = sfs[tmp_path], ![tmp_path] = NoFile]
          /\ hist' = IF mode = "CATCH_UP"
                     THEN [hist EXCEPT !.saves = Append(@, sv)]
                     ELSE hist
       \/ UNCHANGED <<sfs, hist>>
    /\ hpc' = "sv_ret"
    /\ UNCHANGED <<s0, since, mode, page0, rsp, sv, su, saved, killed, called, start,
                   textual, evrec>>

\* if(ec) std::cerr<<...; save_since_state returns to its caller:
\* if(count == 0) break; in catch_up_all_history, the next long-poll in main
S_Return ==
    /\ hpc = "sv_ret"
    /\ saved' = [has |-> TRUE, v |-> sv]
    /\ IF mode = "CATCH_UP"
       THEN IF page0
            THEN /\ mode' = "LIVE" /\ s0' = since /\ hpc' = "lp"
                 /\ hist' = [hist EXCEPT !.cu = "ended"]
            ELSE hpc' = "pull" /\ UNCHANGED <<mode, s0, hist>>
       ELSE hpc' = "lp" /\ UNCHANGED <<mode, s0, hist>>
    /\ UNCHANGED <<sfs, since, page0, rsp, sv, su, killed, called, start, textual, evrec>>

\* the process is killed: its memory (threads, mutexes, open streams) is gone,
\* the files stay as they are
Crash ==
    /\ hpc \notin {"down", "terminated"}
    /\ hpc' = "down"
    /\ killed' = IF hpc \in SavePcs THEN [killed EXCEPT !.in = TRUE] ELSE killed
    /\ s0' = 0
    /\ since' = 0
    /\ mode' = "none"
    /\ page0' = FALSE
    /\ rsp' = [next |-> 0, lo |-> 1, hi |-> 0]
    /\ sv' = 0
    /\ su' = 0
    /\ hist' = NoHist
    /\ pc' = [t \in Threads |-> "idle"]
    /\ mtx' = [m \in {"global", "pcl"} |-> "none"]
    /\ ofs' = [L \in Logs |-> 0]
    /\ cur' = [t \in Threads |-> [id |-> 0, key |-> "a"]]
    /\ written' = [t \in Threads |-> 0]
    /\ stamp' = [t \in Threads |-> 0]
    /\ rot' = [t \in Threads |-> "none"]
    /\ UNCHANGED <<fsVars, clock, cfgVars, nextId, recs, histVars>>
    /\ UNCHANGED <<sfs, saved, called, start, textual, evrec>>

\* the hub is started again: RotatingStream global(glog_path, g_rcfg) opens
\* the Global log, then main comes to load_since_state
Restart ==
    /\ hpc \in {"down", "terminated"}
    /\ hpc' = "boot"
    /\ \E i \in AllocChoices : ofstream_open_app("global", i)
    /\ hist' = NoHist
    /\ UNCHANGED <<clock, cfgVars, mtx, pc, cur, written, stamp, rot, nextId, recs, histVars>>
    /\ UNCHANGED <<sfs, s0, since, mode, page0, rsp, sv, su, saved, killed, called, start,
                   textual, evrec>>

\* ------------------------------------------------- wa-sub: filter and lines
\* A line of a tailed file, as json::parse sees it: text that is not JSON, a
\* JSON scalar, a JSON array, or a JSON object with its "kind", "ts" and
\* "text" members, each missing or holding a JSON value.
Missing == [k |-> "missing", s |-> "", n |-> 0]

NotObject(sh) == [shape |-> sh, kind |-> Missing, ts |-> Missing, text |-> Missing]

KindVals == {Missing, Str("received"), Str("sent"), Int_(1)}
TsVals == {Missing, Int_(1), Int_(MaxSince), Flt(1), Str("x")}
TextVals == {Missing, Str("hi"), Str("Hi"), Int_(1)}

JsonLines ==
    {NotObject("garbage"), NotObject("scalar"), NotObject("array")}
    \cup [shape : {"object"}, kind : KindVals, ts : TsVals, text : TextVals]

\* the characters of the texts and patterns in use
Spell(t) ==
    IF t = "hi" THEN <<"h", "i">>
    ELSE IF t = "Hi" THEN <<"H", "i">>
    ELSE IF t = "h" THEN <<"h">>
    ELSE IF t = "H" THEN <<"H">>
    ELSE <<>>

\* std::regex::icase folds the case of a character
Fold(c) == IF c = "H" THEN "h" ELSE c

\* std::regex_search(t, re) for a literal pattern: re occurs somewhere in t,
\* case folded when the regex was built with std::regex::icase
regex_search(t, re, icase) ==
    LET a == Spell(t)
        b == Spell(re)
    IN \E i \in 0..(Len(a) - Len(b)) :
          \A k \in 1..Len(b) :
              IF icase THEN Fold(a[i + k]) = Fold(b[k]) ELSE a[i + k] = b[k]

\* --grep patterns: the text after an optional (?i) prefix
GrepPats == [prefix : BOOLEAN, body : {"h", "H"}]

\* the filter options of a command line
FilterArgs ==
    [kind : {"", "received"}, has_since : BOOLEAN, since_ts : {MaxSince},
     has_grep : BOOLEAN, grep_pat : GrepPats]

\* make_filter(a): kind and since_ts are copied; a pattern that starts with
\* (?i) is compiled without the prefix and with std::regex::icase
make_filter(a) ==
    [kind |-> a.kind, has_since |-> a.has_since,
     since_ts |-> IF a.has_since THEN a.since_ts ELSE 0,
     has_re |-> a.has_grep,
     re |-> IF a.has_grep THEN a.grep_pat.body ELSE "",
     icase |-> a.has_grep /\ a.grep_pat.prefix]

\* j.value(key, std::string()): type_error when j is not an object or the
\* member is not a string; the default when the member is missing
value_string(j, x) ==
    IF j.shape # "object" THEN Thrown
    ELSE IF x = Missing THEN [thrown |-> FALSE, v |-> ""]
    ELSE IF x.k = "str" THEN [thrown |-> FALSE, v |-> x.s]
    ELSE Thrown

\* j.value("ts", 0LL): type_error when j is not an object or the member is
\* not a number; a float is truncated
value_ll(j, x) ==
    IF j.shape # "object" THEN Thrown
    ELSE IF x = Missing THEN Returned(0)
    ELSE IF x.k \in {"int", "float", "bool"} THEN Returned(x.n)
    ELSE Thrown

\* match_line(raw, f) on any line: "true", "false", or "throw" when an
\* exception leaves it
match_line_any(j, f) ==
    IF j.shape = "garbage" THEN "false"
    ELSE IF f.kind # "" /\ value_string(j, j.kind).thrown THEN "throw"
    ELSE IF f.kind # "" /\ value_string(j, j.kind).v # f.kind THEN "false"
    ELSE IF f.has_since /\ value_ll(j, j.ts).thrown THEN "throw"
    ELSE IF f.has_since /\ value_ll(j, j.ts).v < f.since_ts THEN "false"
    ELSE IF f.has_re /\ value_string(j, j.text).thrown THEN "throw"
    ELSE IF f.has_re /\ ~regex_search(value_string(j, j.text).v, f.re, f.icase) THEN "false"
    ELSE "true"

\* the read loop over a file of arbitrary lines: while(std::getline(f,line))
\* { ... if(match_line(line,filt)) emit(line) ... }; an exception that
\* leaves match_line leaves main
M_Line ==
    /\ mst = "reading"
    /\ mpos < Len(mfile)
    /\ LET r == match_line_any(mfile[mpos + 1], mfilt) IN
       /\ mres' = Append(mres, r)
       /\ mst' = IF r = "throw" THEN "aborted" ELSE "reading"
    /\ mpos' = mpos + 1
    /\ UNCHANGED <<mfile, mfilt>>

\* getline finds no further line
M_Eof ==
    /\ mst = "reading"
    /\ mpos = Len(mfile)
    /\ mst' = "eof"
    /\ UNCHANGED <<mfile, mfilt, mpos, mres>>

\* ------------------------------------------------------ wa-sub: command line
\* The options that matter to parse and make_filter: the mode flags, a
\* duration or timestamp that is absent, numeric or not numeric, the target,
\* a kind, and a pattern that compiles or not.
NumArg == {"none", "num", "bad"}

CmdLines ==
    [follow : BOOLEAN, once : BOOLEAN, window : NumArg, timeout : NumArg,
     file : BOOLEAN, peer : BOOLEAN, kind : {"none", "received", "bogus"},
     grep : {"none", "ok", "badre"}, since : NumArg]

\* std::stoll / std::stoi throw std::invalid_argument on text that does not
\* start with a number
sto_throws(a) == a.since = "bad" \/ a.window = "bad" \/ a.timeout = "bad"

\* int modes=(a.follow?1:0)+(a.once?1:0)+(a.window_sec?1:0);
modes(a) ==
    (IF a.follow THEN 1 ELSE 0) + (IF a.once THEN 1 ELSE 0)
        + (IF a.window # "none" THEN 1 ELSE 0)

\* parse(argc, argv): the option loop, then the checks that call die_usage
P_Parse ==
    /\ ast = "start"
    /\ ast' = IF sto_throws(cmdline) THEN "abort"
              ELSE IF modes(cmdline) # 1 THEN "exit2"
              ELSE IF ~cmdline.file /\ ~cmdline.peer THEN "exit2"
              ELSE IF cmdline.once /\ cmdline.timeout = "none" THEN "exit2"
              ELSE IF cmdline.kind = "bogus" THEN "exit2"
              ELSE "parsed"
    /\ UNCHANGED cmdline

\* make_filter(a): std::regex_error is caught and becomes die_usage
P_Filter ==
    /\ ast = "parsed"
    /\ ast' = IF cmdline.grep = "badre" THEN "exit2" ELSE "run"
    /\ UNCHANGED cmdline

\* main goes on to the target: fs::exists(target), inode_of, std::ifstream
P_Open ==
    /\ ast = "run"
    /\ ast' = "opened"
    /\ UNCHANGED cmdline

\* ------------------------------------------------------ hub: sender thread
\* std::atomic<bool> running{true}; nothing stores to it
running == TRUE

\* a line of the outbound pipe, as json::parse sees it
NotRequest(sh) == [shape |-> sh, to |-> Missing, alias |-> Missing, text |-> Missing]

NoSend == [code |-> 0, body |-> "none"]

\* The request lines: text that is not JSON, a JSON scalar or array, or an
\* object with "to", "alias" and "text" members, each missing or a JSON value.
RequestLines ==
    {NotRequest("garbage"), NotRequest("scalar"), NotRequest("array")}
    \cup [shape : {"object"}, to : {Missing, Str("a"), Str("b"), Int_(1)},
          alias : {Missing, Str("a")}, text : {Missing, Str("hi"), Int_(1)}]

\* the bodies the transport may answer a send with: not JSON, an object
\* without contacts or error, contacts[0] an object or not, error an object
\* or a string
SendBodies == {"garbage", "plain", "contacts_obj", "contacts_scalar", "error_obj", "error_str"}

\* load_aliases: alias "a" stands for number "b", or there is no aliases file
alias_to_num(x) == IF aliases /\ x = "a" THEN "b" ELSE x

\* peer_key(A, number)
peer_key(x) == IF aliases /\ x = "b" THEN "a" ELSE x

\* cmd.value("to",""); if(to.empty() && cmd.contains("alias")) to = cmd.value("alias","");
request_to(c) ==
    LET t == value_string(c, c.to) IN
    IF t.thrown THEN Thrown
    ELSE IF t.v = "" /\ c.alias # Missing THEN value_string(c, c.alias)
    ELSE t

\* the loop head: while(running)
D_Head ==
    /\ dpc = "head"
    /\ dpc' = IF running THEN "getline" ELSE "stopped"
    /\ UNCHANGED <<fifo, dcmd, dresp, drec, aliases>>

\* some process writes a request line to the pipe
D_Arrive ==
    /\ dpc \notin {"stopped", "terminated"}
    /\ fifo = <<>>
    /\ nextId <= MaxRecs
    /\ \E l \in RequestLines : fifo' = <<l>>
    /\ UNCHANGED <<dpc, dcmd, dresp, drec, aliases>>

\* getline(&line,&n,fifo_in) on the blocking read end: it returns when a line
\* is there; the hub's own keepalive writer keeps end-of-file from ever coming
D_Getline ==
    /\ dpc = "getline"
    /\ fifo # <<>>
    /\ dcmd' = fifo[1]
    /\ fifo' = <<>>
    /\ dresp' = NoSend
    /\ drec' = 0
    /\ dpc' = "parse"
    /\ UNCHANGED aliases

\* json::parse(s, nullptr, false); cmd.value("to",""), cmd.value("alias",""),
\* cmd.value("text",""); an exception leaves the thread function and
\* std::terminate ends the process
D_Parse ==
    /\ dpc = "parse"
    /\ dpc' = IF dcmd.shape = "garbage" THEN "head"
              ELSE IF request_to(dcmd).thrown THEN "terminated"
              ELSE IF value_string(dcmd, dcmd.text).thrown THEN "terminated"
              ELSE IF request_to(dcmd).v = "" \/ value_string(dcmd, dcmd.text).v = ""
              THEN "head"
              ELSE "send"
    /\ UNCHANGED <<fifo, dcmd, dresp, drec, aliases>>

\* http_post_json(cfg.worker+"/send", payload.dump(), &code)
D_Send ==
    /\ dpc = "send"
    /\ \E code \in HttpCodes, b \in SendBodies : dresp' = [code |-> code, body |-> b]
    /\ dpc' = "meta"
    /\ UNCHANGED <<fifo, dcmd, drec, aliases>>

\* the meta line: jr["contacts"][0].value("wa_id","") on success,
\* e.value("code",0) ... on failure with e = jr["error"]; value() throws when
\* its json is not an object
meta_throws(r) ==
    \/ http_ok(r.code) /\ r.body = "contacts_scalar"
    \/ ~http_ok(r.code) /\ r.body = "error_str"

D_Meta ==
    /\ dpc = "meta"
    /\ dpc' = IF meta_throws(dresp) THEN "terminated" ELSE "event"
    /\ UNCHANGED <<fifo, dcmd, dresp, drec, aliases>>

\* json ev = {ts, kind "sent", peer, text} or {ts, kind "status", peer,
\* status "failed"}; global.append(ev); pcl.append(peer, ev); begin
D_Event ==
    /\ dpc = "event"
    /\ pc["dispatch"] = "idle"
    /\ nextId <= MaxRecs
    /\ cur' = [cur EXCEPT !["dispatch"] =
                 [id |-> nextId, key |-> peer_key(alias_to_num(request_to(dcmd).v))]]
    /\ recs' = [recs EXCEPT ![nextId] =
                 [kind |-> IF http_ok(dresp.code) THEN "sent" ELSE "status", ts |-> nextId]]
    /\ nextId' = nextId + 1
    /\ pc' = [pc EXCEPT !["dispatch"] = "g_lock"]
    /\ rot' = [rot EXCEPT !["dispatch"] = "none"]
    /\ drec' = nextId
    /\ dpc' = "appending"
    /\ UNCHANGED <<fsVars, clock, cfgVars, ofs, mtx, written, stamp, histVars>>
    /\ UNCHANGED <<fifo, dcmd, dresp, aliases>>

\* pcl.append has returned: the end of the loop body
D_Done ==
    /\ dpc = "appending"
    /\ pc["dispatch"] = "idle"
    /\ dpc' = "head"
    /\ UNCHANGED <<fifo, dcmd, dresp, drec, aliases>>

\* ------------------------------------------------------ hub: envelopes
\* The elements of v["messages"] and v["statuses"] of a response, in the order
\* the loops meet them: a text message and a status as the transport documents
\* them, a message of another type, a change without "value", an element that
\* is not an object, a message whose "type" is a number, and a text message
\* without a "text" member.
EnvItems == {"text_msg", "status", "image_msg", "no_value", "scalar_msg", "type_num", "no_text"}

MaxItems == 2

\* the bodies of a 2xx response that json::parse accepts
Responses ==
    {[top |-> "array", items |-> <<>>]}
    \cup {[top |-> "object", items |-> q] :
            q \in UNION {[1..n -> EnvItems] : n \in 0..MaxItems}}

\* what process_envelope_and_log does with an element: "append", "skip" (the
\* contains()/is_array() guards and a type other than "text"), "throw"
\* (m.value on a json that is not an object, or on a member of the wrong type),
\* "undefined" (const operator[] with a key that is not there)
item_outcome(x) ==
    CASE x \in {"text_msg", "status"} -> "append"
      [] x \in {"image_msg", "no_value"} -> "skip"
      [] x \in {"scalar_msg", "type_num"} -> "throw"
      [] x = "no_text" -> "undefined"

\* http_get returned 2xx and json::parse accepted the body;
\* j.value("next_since", since.load()) throws when j is not an object
E_Poll ==
    /\ epc = "poll"
    /\ esince < MaxSince
    /\ nextId <= MaxRecs
    /\ \E r \in Responses :
         /\ eresp' = r
         /\ erec' = [k \in DOMAIN r.items |-> 0]
         /\ epc' = IF r.top = "object" THEN "process" ELSE "terminated"
    /\ eidx' = 1
    /\ UNCHANGED esince

\* an element that the loops pass over
E_Skip ==
    /\ epc = "process"
    /\ pc["ingest"] = "idle"
    /\ eidx <= Len(eresp.items)
    /\ item_outcome(eresp.items[eidx]) = "skip"
    /\ eidx' = eidx + 1
    /\ UNCHANGED <<epc, eresp, erec, esince>>

\* json::type_error leaves process_envelope_and_log and main: the process
\* ends; reading a member that is not there may end it as well
E_Throw ==
    /\ epc = "process"
    /\ pc["ingest"] = "idle"
    /\ eidx <= Len(eresp.items)
    /\ item_outcome(eresp.items[eidx]) \in {"throw", "undefined"}
    /\ epc' = "terminated"
    /\ UNCHANGED <<eresp, eidx, erec, esince>>

\* json ev = {ts, kind, peer, text or status}; global.append(ev);
\* pcl.append(peer, ev); begin. Reading a member that is not there may also
\* go on with whatever it read.
E_Append ==
    /\ epc = "process"
    /\ pc["ingest"] = "idle"
    /\ eidx <= Len(eresp.items)
    /\ item_outcome(eresp.items[eidx]) \in {"append", "undefined"}
    /\ nextId <= MaxRecs
    /\ \E k \in Keys : cur' = [cur EXCEPT !["ingest"] = [id |-> nextId, key |-> k]]
    /\ recs' = [recs EXCEPT ![nextId] =
                 [kind |-> IF eresp.items[eidx] = "status" THEN "status" ELSE "received",
                  ts |-> nextId]]
    /\ nextId' = nextId + 1
    /\ pc' = [pc EXCEPT !["ingest"] = "g_lock"]
    /\ rot' = [rot EXCEPT !["ingest"] = "none"]
    /\ erec' = [erec EXCEPT ![eidx] = nextId]
    /\ eidx' = eidx + 1
    /\ UNCHANGED <<fsVars, clock, cfgVars, ofs, mtx, written, stamp, histVars>>
    /\ UNCHANGED <<epc, eresp, esince>>

\* since.store(next_since); save_since_state(cfg, next_since)
E_Store ==
    /\ epc = "process"
    /\ pc["ingest"] = "idle"
    /\ eidx > Len(eresp.items)
    /\ esince' = esince + 1
    /\ epc' = "poll"
    /\ UNCHANGED <<eresp, eidx, erec>>

\* ------------------------------------------------------ hub: start
\* the transport calls of a run that the model follows
MaxCalls == 3

\* RotatingStream global(glog_path, g_rcfg): fs::create_directories of the
\* parent throws when it fails, and nothing catches it; ofs.open(path, app)
\* fails silently, and nothing looks at the stream
B_Logs ==
    /\ bpc = "logs"
    /\ bpc' = IF gcan = "nodir" THEN "terminated" ELSE "meta"
    /\ gopen' = (gcan = "ok")
    /\ startfail' = (gcan # "ok")
    /\ UNCHANGED <<gcan, metaok, bcalls, bsaved, blost>>

\* std::ofstream meta(...); if(!meta.good()) return 4;
B_Meta ==
    /\ bpc = "meta"
    /\ bpc' = IF metaok THEN "load" ELSE "exit4"
    /\ UNCHANGED <<gcan, metaok, gopen, bcalls, bsaved, blost, startfail>>

\* load_since_state, then catch-up or the receiver loop
B_Load ==
    /\ bpc = "load"
    /\ bpc' = "call"
    /\ UNCHANGED <<gcan, metaok, gopen, bcalls, bsaved, blost, startfail>>

\* http_get of /pull or /lp; the response holds a message or not
B_Call ==
    /\ bpc = "call"
    /\ bcalls < MaxCalls
    /\ bcalls' = bcalls + 1
    /\ \E some \in BOOLEAN : bpc' = IF some THEN "append" ELSE "save"
    /\ UNCHANGED <<gcan, metaok, gopen, bsaved, blost, startfail>>

\* RotatingStream::append: open_append_unlocked opens a closed stream again;
\* the write to a stream that is not open does nothing
B_Append ==
    /\ bpc = "append"
    /\ gopen' = (gopen \/ gcan = "ok")
    /\ blost' = IF gopen' THEN blost ELSE blost + 1
    /\ bpc' = "rot"
    /\ UNCHANGED <<gcan, metaok, bcalls, bsaved, startfail>>

\* rotate_unlocked: nothing when no rotation is due; else close, rename,
\* ofs.open(path, app)
B_Rotate ==
    /\ bpc = "rot"
    /\ \E due \in BOOLEAN : gopen' = IF due THEN (gcan = "ok") ELSE gopen
    /\ bpc' = "save"
    /\ UNCHANGED <<gcan, metaok, bcalls, bsaved, blost, startfail>>

\* save_since_state(cfg, next_since)
B_Save ==
    /\ bpc = "save"
    /\ bsaved' = TRUE
    /\ bpc' = "call"
    /\ UNCHANGED <<gcan, metaok, gopen, bcalls, blost, startfail>>

\* the permissions of the log directory or of the log file change
B_Env ==
    /\ bpc \notin {"stopped", "terminated", "exit4"}
    /\ \E c \in {"ok", "nodir", "nofile"} : c # gcan /\ gcan' = c
    /\ UNCHANGED <<bpc, metaok, gopen, bcalls, bsaved, blost, startfail>>

\* ------------------------------------------------------ wa-runner: run_argv
\* the child's stdout and stderr pipes
Fds == {"out", "err"}

\* the seconds of a run that the model follows
MaxElapsed == 3

\* --cmd-timeout SEC
Timeouts == {1, 2}

\* What a spawned command may do: exit by itself, write nothing and hang,
\* write once and hang with its output open, or write without end; on stdout
\* or on stderr.
Children == [does : {"quick", "silent", "once", "stream"}, fd : Fds]

\* the write ends of the pipes are closed once the child is gone
WritersClosed == kst # "run"

\* waitpid(pid, &status, WNOHANG)
R_Wait ==
    /\ rpc = "wait"
    /\ rpc' = IF kst # "run" THEN "drain_out" ELSE "select"
    /\ UNCHANGED <<child, kst, kwrote, pavail, rset, elapsed, timeout_sec>>

\* select(..., &tv) with tv = 200 ms: the descriptors with bytes or at
\* end-of-file stay in the set
R_Select ==
    /\ rpc = "select"
    /\ rset' = [f \in Fds |-> pavail[f] \/ WritersClosed]
    /\ rpc' = IF rset'["out"] THEN "read_out" ELSE IF rset'["err"] THEN "read_err" ELSE "check"
    /\ UNCHANGED <<child, kst, kwrote, pavail, elapsed, timeout_sec>>

\* one read(fd, buf, sizeof(buf)) of read_fd's loop on a blocking pipe: it
\* returns bytes and the loop goes on, or 0 at end-of-file and the loop ends;
\* with no bytes and a writer left it does not return
read_fd(f, pos, after) ==
    /\ rpc = pos
    /\ pavail[f] \/ WritersClosed
    /\ IF pavail[f]
       THEN /\ pavail' = [pavail EXCEPT ![f] = FALSE]
            /\ rpc' = pos
       ELSE /\ rpc' = after
            /\ UNCHANGED pavail
    /\ UNCHANGED <<child, kst, kwrote, rset, elapsed, timeout_sec>>

\* if(FD_ISSET(out_pipe[0], &set)) read_fd(out_pipe[0], out);
R_ReadOut == read_fd("out", "read_out", IF rset["err"] THEN "read_err" ELSE "check")

\* if(FD_ISSET(err_pipe[0], &set)) read_fd(err_pipe[0], err);
R_ReadErr == read_fd("err", "read_err", "check")

\* if(timeout_sec>0 && elapsed >= timeout_sec){ kill; waitpid; break; }
R_Check ==
    /\ rpc = "check"
    /\ IF timeout_sec > 0 /\ elapsed >= timeout_sec
       THEN kst' = (IF kst = "run" THEN "killed" ELSE kst) /\ rpc' = "drain_out"
       ELSE kst' = kst /\ rpc' = "wait"
    /\ UNCHANGED <<child, kwrote, pavail, rset, elapsed, timeout_sec>>

\* { std::string tmp; read_fd(out_pipe[0], tmp); out+=tmp; }
R_DrainOut == read_fd("out", "drain_out", "drain_err")

\* { std::string tmp; read_fd(err_pipe[0], tmp); err+=tmp; } ... return
R_DrainErr == read_fd("err", "drain_err", "returned")

\* the child writes to its descriptor
K_Write ==
    /\ kst = "run"
    /\ child.does \in {"once", "stream"}
    /\ child.does = "once" => ~kwrote
    /\ ~pavail[child.fd]
    /\ pavail' = [pavail EXCEPT ![child.fd] = TRUE]
    /\ kwrote' = TRUE
    /\ UNCHANGED <<rpc, child, kst, rset, elapsed, timeout_sec>>

\* the child exits by itself
K_Exit ==
    /\ kst = "run"
    /\ child.does = "quick"
    /\ kst' = "exited"
    /\ UNCHANGED <<rpc, child, kwrote, pavail, rset, elapsed, timeout_sec>>

\* std::chrono::steady_clock advances
R_Tick ==
    /\ rpc \notin {"stopped", "returned"}
    /\ elapsed < MaxElapsed
    /\ elapsed' = elapsed + 1
    /\ UNCHANGED <<rpc, child, kst, kwrote, pavail, rset, timeout_sec>>

\* ------------------------------------------------------ wa-runner: event loop
\* a text member: missing, a number, or a string given by its characters
NoText == [k |-> "missing", s |-> <<>>, n |-> 0]
NumText == [k |-> "int", s |-> <<>>, n |-> 1]
Txt(c) == [k |-> "str", s |-> c, n |-> 0]

\* a line of wa-sub's output that is not a JSON object
NotEvent(sh) == [shape |-> sh, kind |-> Missing, peer |-> Missing, text |-> NoText, ts |-> Missing]

\* the lines the event loop may read
RunnerEvents ==
    {NotEvent("garbage"), NotEvent("scalar")}
    \cup [shape : {"object"},
          kind : {Missing, Str("received"), Str("sent"), Int_(1)},
          peer : {Missing, Str("a"), Int_(1)},
          text : {NoText, NumText, Txt(<<>>), Txt(<<"h">>), Txt(<<"/", "x">>),
                  Txt(<<"/", "x", " ", "h">>), Txt(<<"/", "y">>)},
          ts : {Missing, Int_(1), Str("x")}]

\* what a block of commands.json holds for the command "x": nothing, a
\* non-empty array, an empty array, a string
TemplateVals == {"absent", "array", "empty", "string"}

\* a block of commands.json: absent, not an object, or an object
NoBlock(sh) == [t |-> sh, x |-> "absent"]
Blocks == {NoBlock("absent"), NoBlock("scalar")} \cup [t : {"object"}, x : TemplateVals]

\* the command maps: the block of peer "a" and the block "global"
CmdMaps == [a : Blocks, global : Blocks]

\* std::isalnum(c) || c=='_' || c=='-'
NameChars == {"x", "y", "h"}

\* name = body.substr(0,j) with body = text.substr(1) and j the first
\* position of body that holds no name character
cmd_name(t) ==
    LET body == SubSeq(t, 2, Len(t))
        stops == {j \in 1..Len(body) : body[j] \notin NameChars}
        j == IF stops = {} THEN Len(body) + 1 ELSE MinOf(stops)
    IN SubSeq(body, 1, j - 1)

\* cmdmap.contains(key) ? cmdmap[key] : absent
block_of(key) == IF key \in {"a", "global"} THEN cmdmap[key] ELSE NoBlock("absent")

\* b.contains(name) for a block b
block_has(b, name) == b.t = "object" /\ name = <<"x">> /\ b.x # "absent"

\* peer_map = cmdmap[peer_in] when it is an object; mapping = peer_map[name]
\* when it is there, else cmdmap["global"][name] when that is there, else null
resolve(peer_in, name) ==
    IF block_has(block_of(peer_in), name) THEN block_of(peer_in).x
    ELSE IF block_has(block_of("global"), name) THEN block_of("global").x
    ELSE "absent"

\* ev.value("text", std::string())
value_text(j, x) ==
    IF j.shape # "object" THEN Thrown
    ELSE IF x.k = "missing" THEN [thrown |-> FALSE, v |-> <<>>]
    ELSE IF x.k = "str" THEN [thrown |-> FALSE, v |-> x.s]
    ELSE Thrown

\* the loop body up to the lookup: parse, kind, peer, text, ts, the slash, the
\* name, the mapping; an exception of ev.value leaves main
Q_Parse ==
    /\ qpc = "read"
    /\ qpc' =
         IF qev.shape = "garbage" THEN "skipped"
         ELSE IF value_string(qev, qev.kind).thrown THEN "terminated"
         ELSE IF value_string(qev, qev.kind).v # "received" THEN "skipped"
         ELSE IF value_string(qev, qev.peer).thrown THEN "terminated"
         ELSE IF value_text(qev, qev.text).thrown THEN "terminated"
         ELSE IF value_ll(qev, qev.ts).thrown THEN "terminated"
         ELSE IF value_text(qev, qev.text).v = <<>> THEN "skipped"
         ELSE IF value_text(qev, qev.text).v[1] # "/" THEN "skipped"
         ELSE IF resolve(value_string(qev, qev.peer).v,
                         cmd_name(value_text(qev, qev.text).v)) # "array"
         THEN "unknown"
         ELSE "spawn"
    /\ UNCHANGED <<qev, cmdmap, auto_reply, qspawned, qlog, qreply>>

\* rec = {..., "rc":-1, "stderr":"unknown command"}; lf<<rec.dump()<<'\n'; continue
Q_Unknown ==
    /\ qpc = "unknown"
    /\ qlog' = Append(qlog, -1)
    /\ qpc' = "done"
    /\ UNCHANGED <<qev, cmdmap, auto_reply, qspawned, qreply>>

\* build_argv, run_argv: fork
Q_Spawn ==
    /\ qpc = "spawn"
    /\ qspawned' = qspawned + 1
    /\ qpc' = "ran"
    /\ UNCHANGED <<qev, cmdmap, auto_reply, qlog, qreply>>

\* rec = {..., "rc":rc, ...}; lf<<rec.dump()<<'\n'
Q_Log ==
    /\ qpc = "ran"
    /\ \E rc \in {0, 1, 128} : qlog' = Append(qlog, rc)
    /\ qpc' = "reply"
    /\ UNCHANGED <<qev, cmdmap, auto_reply, qspawned, qreply>>

\* if(auto_reply && !fifo.empty()) fifo_send(fifo, peer_in, reply.str())
Q_Reply ==
    /\ qpc = "reply"
    /\ qreply' = IF auto_reply THEN qreply + 1 ELSE qreply
    /\ qpc' = "done"
    /\ UNCHANGED <<qev, cmdmap, auto_reply, qspawned, qlog>>

\* the clock of std::time advances
Tick ==
    /\ clock + 1 \in Stamps
    /\ clock' = clock + 1
    /\ UNCHANGED <<fsVars, cfgVars, wrVars, histVars>>

vars == <<logVars, tailVars, curVars, auxVars>>

\* no file of arbitrary lines is being read
InitNoSub ==
    /\ mfile = <<>>
    /\ mfilt = [kind |-> "", has_since |-> FALSE, since_ts |-> 0, has_re |-> FALSE,
                re |-> "", icase |-> FALSE]
    /\ mpos = 0
    /\ mres = <<>>
    /\ mst = "eof"

\* the options of a plain follow session on a file
PlainFollow ==
    [follow |-> TRUE, once |-> FALSE, window |-> "none", timeout |-> "none",
     file |-> TRUE, peer |-> FALSE, kind |-> "none", grep |-> "none", since |-> "none"]

\* no command line is being parsed
InitNoArgs ==
    /\ cmdline = PlainFollow
    /\ ast = "opened"

\* the sender thread is left aside
InitNoDisp ==
    /\ dpc = "stopped"
    /\ fifo = <<>>
    /\ dcmd = NotRequest("garbage")
    /\ dresp = NoSend
    /\ drec = 0
    /\ aliases = FALSE

\* the envelope loop is left aside
InitNoEnv ==
    /\ epc = "stopped"
    /\ eresp = [top |-> "object", items |-> <<>>]
    /\ eidx = 1
    /\ erec = <<>>
    /\ esince = 0

\* the start of the hub is left aside
InitNoStart ==
    /\ bpc = "stopped"
    /\ gcan = "ok"
    /\ metaok = TRUE
    /\ gopen = FALSE
    /\ bcalls = 0
    /\ bsaved = FALSE
    /\ blost = 0
    /\ startfail = FALSE

\* no command is being run
InitNoRun ==
    /\ rpc = "stopped"
    /\ child = [does |-> "silent", fd |-> "out"]
    /\ kst = "exited"
    /\ kwrote = FALSE
    /\ pavail = [f \in Fds |-> FALSE]
    /\ rset = [f \in Fds |-> FALSE]
    /\ elapsed = 0
    /\ timeout_sec = 1

\* the runner's event loop is left aside
InitNoLoop ==
    /\ qpc = "stopped"
    /\ qev = NotEvent("garbage")
    /\ cmdmap = [a |-> [t |-> "absent", x |-> "absent"], global |-> [t |-> "absent", x |-> "absent"]]
    /\ auto_reply = FALSE
    /\ qspawned = 0
    /\ qlog = <<>>
    /\ qreply = 0

\* no tailing session is being followed
InitNoGhost ==
    /\ startIds = {}
    /\ startNext = 0
    /\ scanOff = -1
    /\ cut = "no"

\* the opening of the send pipe is left aside
InitNoFifo ==
    /\ fpc = "stopped"
    /\ extw = FALSE

\* alias resolution is left aside
InitNoAlias ==
    /\ atab = [a \in {} |-> "absent"]
    /\ ain = "none"
    /\ akey = "none"
    /\ hkey = "none"

InitNoLate == InitNoGhost /\ InitNoFifo /\ InitNoAlias

InitNoAux ==
    /\ InitNoSub /\ InitNoArgs /\ InitNoDisp /\ InitNoEnv /\ InitNoStart /\ InitNoRun /\ InitNoLoop
    /\ InitNoLate

\* RotatingStream global(glog_path, g_rcfg) has created and opened the Global
\* log; PerContactLogs has no entry yet.
InitFs ==
    /\ dir = [n \in Names |-> IF n = Path("global") THEN 1 ELSE 0]
    /\ data = [i \in Inodes |-> <<>>]
    /\ nextIno = 2
    /\ freed = {}
    /\ clock = 1

InitWriters ==
    /\ ofs = [L \in Logs |-> IF L = "global" THEN 1 ELSE 0]
    /\ mtx = [m \in {"global", "pcl"} |-> "none"]
    /\ pc = [t \in Threads |-> "idle"]
    /\ cur = [t \in Threads |-> [id |-> 0, key |-> "a"]]
    /\ written = [t \in Threads |-> 0]
    /\ stamp = [t \in Threads |-> 0]
    /\ rot = [t \in Threads |-> "none"]
    /\ nextId = 1
    /\ recs = [i \in 1..MaxRecs |-> [kind |-> "", ts |-> 0]]
    /\ serial = [L \in Logs |-> <<>>]
    /\ flushed = [L \in Logs |-> <<>>]
    /\ rotAt = [L \in Logs |-> 0]

\* no tailing session
InitNoTail ==
    /\ args = [mode |-> "follow", kind |-> "", has_since |-> FALSE, since_ts |-> 0]
    /\ tpc = "done"
    /\ cur_inode = 0
    /\ offset = 0
    /\ ino = 0
    /\ sz = 0
    /\ pline = <<>>
    /\ out = <<>>
    /\ exitcode = -1
    /\ expired = FALSE
    /\ tgen = 0
    /\ fromZero = FALSE
    /\ partialSeen = FALSE

\* main before load_since_state, with the cursor-state file f
InitHub(f) ==
    /\ sfs = [n \in {"state", "tmp"} |-> IF n = "state" THEN f ELSE NoFile]
    /\ hpc = "boot"
    /\ s0 = 0
    /\ since = 0
    /\ mode = "none"
    /\ page0 = FALSE
    /\ sv = 0
    /\ su = 0
    /\ saved = [has |-> FALSE, v |-> 0]
    /\ killed = [in |-> FALSE, prior |-> 0, v |-> 0]
    /\ called = {}
    /\ start = [ret |-> 0, mode |-> "none"]
    /\ rsp = [next |-> 0, lo |-> 1, hi |-> 0]
    /\ hist = NoHist
    /\ evrec = [i \in 1..MaxRecs |-> 0]

\* the cursor store is left aside
InitNoCursor == InitHub(NoFile) /\ textual = FALSE

\* rotate_global_bytes and rotate_peer_bytes: rotation off for one log and at
\* every record for the other, or at every second record for both
ThresholdPairs ==
    {<<0, RecLen>>, <<RecLen, 0>>, <<2 * RecLen, 2 * RecLen>>}

InitLog ==
    /\ InitFs
    /\ InitWriters
    /\ InitNoTail
    /\ InitNoCursor
    /\ InitNoAux
    /\ \E gp \in ThresholdPairs :
          threshold = [L \in Logs |-> IF L = "global" THEN gp[1] ELSE gp[2]]
    /\ peers = {"a"}
    /\ kinds = [t \in Threads |-> IF t = "ingest" THEN {"received"} ELSE {"sent"}]

NextLog ==
    \/ \E t \in Threads : Begin(t) /\ UNCHANGED <<tailVars, curVars, auxVars>>
    \/ \E t \in Threads : RS_Lock(t) /\ UNCHANGED <<tailVars, curVars, auxVars>>
    \/ \E t \in Threads : RS_Write(t) /\ UNCHANGED <<tailVars, curVars, auxVars>>
    \/ \E t \in Threads : RS_Rotate(t) /\ UNCHANGED <<tailVars, curVars, auxVars>>
    \/ \E t \in Threads : RS_Reopen(t) /\ UNCHANGED <<tailVars, curVars, auxVars>>
    \/ \E t \in Threads : PCL_Lock(t) /\ UNCHANGED <<tailVars, curVars, auxVars>>
    \/ \E t \in Threads : PCL_Write(t) /\ UNCHANGED <<tailVars, curVars, auxVars>>
    \/ \E t \in Threads : PCL_Rotate(t) /\ UNCHANGED <<tailVars, curVars, auxVars>>
    \/ \E t \in Threads : PCL_Reopen(t) /\ UNCHANGED <<tailVars, curVars, auxVars>>
    \/ Tick /\ UNCHANGED <<tailVars, curVars, auxVars>>

SpecLog == InitLog /\ [][NextLog]_vars

\* One hub thread writes the logs while one follow session (no min-timestamp)
\* tails the Global log.
InitTail ==
    /\ InitFs
    /\ InitWriters
    /\ InitNoCursor
    /\ InitNoAux
    /\ \E g \in Thresholds : threshold = [L \in Logs |-> IF L = "global" THEN g ELSE 0]
    /\ peers = {"a"}
    /\ kinds = [t \in Threads |-> IF t = "ingest" THEN {"received"} ELSE {"sent"}]
    /\ \E k \in {"received"} :
          args = [mode |-> "follow", kind |-> k, has_since |-> FALSE, since_ts |-> 0]
    /\ tpc = "s_wait"
    /\ cur_inode = 0
    /\ offset = 0
    /\ ino = 0
    /\ sz = 0
    /\ pline = <<>>
    /\ out = <<>>
    /\ exitcode = -1
    /\ expired = FALSE
    /\ tgen = 0
    /\ fromZero = FALSE
    /\ partialSeen = FALSE

NextTail ==
    \/ Begin("ingest") /\ UNCHANGED <<tailVars, curVars, auxVars>>
    \/ RS_Lock("ingest") /\ UNCHANGED <<tailVars, curVars, auxVars>>
    \/ RS_Write("ingest") /\ UNCHANGED <<tailVars, curVars, auxVars>>
    \/ RS_Rotate("ingest") /\ UNCHANGED <<tailVars, curVars, auxVars>>
    \/ RS_Reopen("ingest") /\ UNCHANGED <<tailVars, curVars, auxVars>>
    \/ PCL_Lock("ingest") /\ UNCHANGED <<tailVars, curVars, auxVars>>
    \/ PCL_Write("ingest") /\ UNCHANGED <<tailVars, curVars, auxVars>>
    \/ PCL_Rotate("ingest") /\ UNCHANGED <<tailVars, curVars, auxVars>>
    \/ Tick /\ UNCHANGED <<tailVars, curVars, auxVars>>
    \/ T_Wait /\ UNCHANGED <<logVars, curVars, auxVars>>
    \/ T_Inode /\ UNCHANGED <<logVars, curVars, auxVars>>
    \/ T_Start /\ UNCHANGED <<logVars, curVars, auxVars>>
    \/ T_Top /\ UNCHANGED <<logVars, curVars, auxVars>>
    \/ T_Ino /\ UNCHANGED <<logVars, curVars, auxVars>>
    \/ T_Size /\ UNCHANGED <<logVars, curVars, auxVars>>
    \/ T_Read /\ UNCHANGED <<logVars, curVars, auxVars>>
    \/ T_Partial /\ UNCHANGED <<logVars, curVars, auxVars>>

SpecTail == InitTail /\ [][NextTail]_vars

\* The hub's main thread with its cursor store, started on an empty data
\* directory; the process may be killed at any step and started again.
InitCursor ==
    /\ InitFs
    /\ InitWriters
    /\ InitNoTail
    /\ threshold = [L \in Logs |-> 0]
    /\ peers = {"a"}
    /\ kinds = [t \in Threads |-> IF t = "ingest" THEN {"received"} ELSE {"sent"}]
    /\ InitHub(NoFile)
    /\ InitNoAux
    /\ textual = FALSE

NextCursor ==
    \/ H_Load /\ UNCHANGED <<logVars, tailVars, auxVars>>
    \/ H_Start /\ UNCHANGED <<logVars, tailVars, auxVars>>
    \/ H_Pull /\ UNCHANGED <<logVars, tailVars, auxVars>>
    \/ H_PullFail /\ UNCHANGED <<logVars, tailVars, auxVars>>
    \/ H_LongPoll /\ UNCHANGED <<logVars, tailVars, auxVars>>
    \/ H_LpFail /\ UNCHANGED <<logVars, tailVars, auxVars>>
    \/ H_LpBad /\ UNCHANGED <<logVars, tailVars, auxVars>>
    \/ H_Backoff /\ UNCHANGED <<logVars, tailVars, auxVars>>
    \/ H_Persist /\ UNCHANGED <<logVars, tailVars, auxVars>>
    \/ S_Open /\ UNCHANGED <<logVars, tailVars, auxVars>>
    \/ S_Write /\ UNCHANGED <<logVars, tailVars, auxVars>>
    \/ S_Rename /\ UNCHANGED <<logVars, tailVars, auxVars>>
    \/ S_Return /\ UNCHANGED <<logVars, tailVars, auxVars>>
    \/ Crash /\ UNCHANGED <<tailVars, auxVars>>
    \/ Restart /\ UNCHANGED <<tailVars, auxVars>>
    \/ Tick /\ UNCHANGED <<tailVars, curVars, auxVars>>

SpecCursor == InitCursor /\ [][NextCursor]_vars

\* what the value of "since" may be in a cursor-state file found at startup
SinceTokens ==
    {Int_(v) : v \in (0 - 2)..MaxSince} \cup {Flt(1), Str("5"), Null, Bool(TRUE)}

\* the texts a cursor-state file found at startup may hold
BootTexts ==
    {<<>>, <<Sym("x")>>, <<Int_(1)>>, <<Sym("["), Sym("]")>>, <<Sym("{"), Sym("}")>>,
     <<Sym("{"), Key("updated"), Int_(1), Sym("}")>>,
     SubSeq(dump(1, 1), 1, 3)}
    \cup {<<Sym("{"), Key("since"), x, Key("updated"), Int_(1), Sym("}")>> : x \in SinceTokens}

\* The hub is started on a data directory whose cursor-state file is absent or
\* holds any of BootTexts.
InitBoot ==
    /\ InitFs
    /\ InitWriters
    /\ InitNoTail
    /\ threshold = [L \in Logs |-> 0]
    /\ peers = {"a"}
    /\ kinds = [t \in Threads |-> IF t = "ingest" THEN {"received"} ELSE {"sent"}]
    /\ \E f \in {NoFile} \cup {[ex |-> TRUE, text |-> t] : t \in BootTexts} : InitHub(f)
    /\ InitNoAux
    /\ textual = FALSE

SpecBoot == InitBoot /\ [][NextCursor]_vars

\* The hub's main thread ingesting text messages from a transport that answers
\* every call: each response's records are appended to the Global log and the
\* Per-Peer log, then the cursor is saved; the process may be killed at any
\* step and started again.
InitIngest ==
    /\ InitFs
    /\ InitWriters
    /\ InitNoTail
    /\ \E g \in {0, RecLen} : threshold = [L \in Logs |-> IF L = "global" THEN g ELSE 0]
    /\ peers = {"a"}
    /\ kinds = [t \in Threads |-> IF t = "ingest" THEN {"received"} ELSE {"sent"}]
    /\ InitHub(NoFile)
    /\ InitNoAux
    /\ textual = TRUE

NextIngest ==
    \/ H_Load /\ UNCHANGED <<logVars, tailVars, auxVars>>
    \/ H_Start /\ UNCHANGED <<logVars, tailVars, auxVars>>
    \/ H_Pull /\ UNCHANGED <<logVars, tailVars, auxVars>>
    \/ H_LongPoll /\ UNCHANGED <<logVars, tailVars, auxVars>>
    \/ H_Event /\ UNCHANGED <<tailVars, auxVars>>
    \/ RS_Lock("ingest") /\ UNCHANGED <<tailVars, curVars, auxVars>>
    \/ RS_Write("ingest") /\ UNCHANGED <<tailVars, curVars, auxVars>>
    \/ RS_Rotate("ingest") /\ UNCHANGED <<tailVars, curVars, auxVars>>
    \/ RS_Reopen("ingest") /\ UNCHANGED <<tailVars, curVars, auxVars>>
    \/ PCL_Lock("ingest") /\ UNCHANGED <<tailVars, curVars, auxVars>>
    \/ PCL_Write("ingest") /\ UNCHANGED <<tailVars, curVars, auxVars>>
    \/ PCL_Rotate("ingest") /\ UNCHANGED <<tailVars, curVars, auxVars>>
    \/ H_Persist /\ UNCHANGED <<logVars, tailVars, auxVars>>
    \/ S_Open /\ UNCHANGED <<logVars, tailVars, auxVars>>
    \/ S_Write /\ UNCHANGED <<logVars, tailVars, auxVars>>
    \/ S_Rename /\ UNCHANGED <<logVars, tailVars, auxVars>>
    \/ S_Return /\ UNCHANGED <<logVars, tailVars, auxVars>>
    \/ Crash /\ UNCHANGED <<tailVars, auxVars>>
    \/ Restart /\ UNCHANGED <<tailVars, auxVars>>

SpecIngest == InitIngest /\ [][NextIngest]_vars

\* the target of a session is not there yet: the hub creates it at its first append
InitFsAbsent ==
    /\ dir = [n \in Names |-> 0]
    /\ data = [i \in Inodes |-> <<>>]
    /\ nextIno = 1
    /\ freed = {}
    /\ clock = 1
    /\ ofs = [L \in Logs |-> 0]

\* the hub's threads before their first append
InitThreads ==
    /\ mtx = [m \in {"global", "pcl"} |-> "none"]
    /\ pc = [t \in Threads |-> "idle"]
    /\ cur = [t \in Threads |-> [id |-> 0, key |-> "a"]]
    /\ written = [t \in Threads |-> 0]
    /\ stamp = [t \in Threads |-> 0]
    /\ rot = [t \in Threads |-> "none"]
    /\ nextId = 1
    /\ recs = [i \in 1..MaxRecs |-> [kind |-> "", ts |-> 0]]
    /\ serial = [L \in Logs |-> <<>>]
    /\ flushed = [L \in Logs |-> <<>>]
    /\ rotAt = [L \in Logs |-> 0]

\* --since-ts of a session that replays history
SinceTs == MaxRecs

\* One hub thread writes the logs while one session of mode md tails the Global
\* log with --kind received, with or without --since-ts; the target exists at
\* the start of the session or not.
InitSession(md) ==
    /\ \/ InitFs /\ InitWriters
       \/ InitFsAbsent /\ InitThreads
    /\ InitNoCursor
    /\ InitNoAux
    /\ \E g \in {0, RecLen} : threshold = [L \in Logs |-> IF L = "global" THEN g ELSE 0]
    /\ peers = {"a"}
    /\ kinds = [t \in Threads |-> IF t = "ingest" THEN {"received"} ELSE {"sent"}]
    /\ \E hs \in BOOLEAN :
          args = [mode |-> md, kind |-> "received", has_since |-> hs,
                  since_ts |-> IF hs THEN SinceTs ELSE 0]
    /\ tpc = "s_wait"
    /\ cur_inode = 0
    /\ offset = 0
    /\ ino = 0
    /\ sz = 0
    /\ pline = <<>>
    /\ out = <<>>
    /\ exitcode = -1
    /\ expired = FALSE
    /\ tgen = 0
    /\ fromZero = FALSE
    /\ partialSeen = FALSE

NextSession ==
    \/ Begin("ingest") /\ UNCHANGED <<tailVars, curVars, auxVars>>
    \/ RS_Lock("ingest") /\ UNCHANGED <<tailVars, curVars, auxVars>>
    \/ RS_Write("ingest") /\ UNCHANGED <<tailVars, curVars, auxVars>>
    \/ RS_Rotate("ingest") /\ UNCHANGED <<tailVars, curVars, auxVars>>
    \/ RS_Reopen("ingest") /\ UNCHANGED <<tailVars, curVars, auxVars>>
    \/ PCL_Lock("ingest") /\ UNCHANGED <<tailVars, curVars, auxVars>>
    \/ PCL_Write("ingest") /\ UNCHANGED <<tailVars, curVars, auxVars>>
    \/ PCL_Rotate("ingest") /\ UNCHANGED <<tailVars, curVars, auxVars>>
    \/ T_Wait /\ UNCHANGED <<logVars, curVars, auxVars>>
    \/ T_Inode /\ UNCHANGED <<logVars, curVars, auxVars>>
    \/ T_Start /\ UNCHANGED <<logVars, curVars, auxVars>>
    \/ T_Scan /\ UNCHANGED <<logVars, curVars, auxVars>>
    \/ T_ScanEnd /\ UNCHANGED <<logVars, curVars, auxVars>>
    \/ T_Top /\ UNCHANGED <<logVars, curVars, auxVars>>
    \/ T_Ino /\ UNCHANGED <<logVars, curVars, auxVars>>
    \/ T_Size /\ UNCHANGED <<logVars, curVars, auxVars>>
    \/ T_Read /\ UNCHANGED <<logVars, curVars, auxVars>>
    \/ T_Partial /\ UNCHANGED <<logVars, curVars, auxVars>>
    \/ T_Deadline /\ UNCHANGED <<logVars, curVars, auxVars>>

\* a single-match-or-timeout session (--once --timeout)
SpecOnce == InitSession("once") /\ [][NextSession]_vars

\* a fixed-window session (--window)
SpecWindow == InitSession("window") /\ [][NextSession]_vars

\* one step of the session's own thread
SessionStep ==
    /\ \/ T_Wait \/ T_Inode \/ T_Start \/ T_Scan \/ T_ScanEnd
       \/ T_Top \/ T_Ino \/ T_Size \/ T_Read \/ T_Partial
    /\ UNCHANGED <<logVars, curVars, auxVars>>

\* now_ms() reaches the deadline computed from t0
ClockStep == T_Deadline /\ UNCHANGED <<logVars, curVars, auxVars>>

\* one step of an append that the hub's thread has begun
AppendStep ==
    /\ \/ RS_Lock("ingest") \/ RS_Write("ingest") \/ RS_Rotate("ingest")
       \/ RS_Reopen("ingest") \/ PCL_Lock("ingest") \/ PCL_Write("ingest")
       \/ PCL_Rotate("ingest")
    /\ UNCHANGED <<tailVars, curVars, auxVars>>

\* A session in a bounded mode that is scheduled again and again while time
\* goes by; the hub finishes every append it begins, and begins one whenever
\* an event comes in, which may be never.
SpecBounded ==
    /\ InitSession("once") \/ InitSession("window")
    /\ [][NextSession]_vars
    /\ WF_vars(SessionStep)
    /\ WF_vars(ClockStep)
    /\ WF_vars(AppendStep)

\* A session reads a file of two arbitrary lines with any filter.
InitMatch ==
    /\ InitFs
    /\ InitWriters
    /\ InitNoTail
    /\ InitHub(NoFile)
    /\ textual = FALSE
    /\ threshold = [L \in Logs |-> 0]
    /\ peers = {"a"}
    /\ kinds = [t \in Threads |-> IF t = "ingest" THEN {"received"} ELSE {"sent"}]
    /\ \E l1 \in JsonLines, l2 \in JsonLines : mfile = <<l1, l2>>
    /\ \E a \in FilterArgs : mfilt = make_filter(a)
    /\ mpos = 0
    /\ mres = <<>>
    /\ mst = "reading"
    /\ InitNoArgs
    /\ InitNoDisp
    /\ InitNoEnv
    /\ InitNoStart
    /\ InitNoRun
    /\ InitNoLoop
    /\ InitNoLate

NextMatch ==
    \/ M_Line /\ UNCHANGED <<logVars, tailVars, curVars, argVars, dispVars, envVars, startVars, runVars, loopVars, lateVars>>
    \/ M_Eof /\ UNCHANGED <<logVars, tailVars, curVars, argVars, dispVars, envVars, startVars, runVars, loopVars, lateVars>>

SpecMatch == InitMatch /\ [][NextMatch]_vars

\* wa-sub is started with any combination of options.
InitArgs ==
    /\ InitFs
    /\ InitWriters
    /\ InitNoTail
    /\ InitHub(NoFile)
    /\ textual = FALSE
    /\ threshold = [L \in Logs |-> 0]
    /\ peers = {"a"}
    /\ kinds = [t \in Threads |-> IF t = "ingest" THEN {"received"} ELSE {"sent"}]
    /\ InitNoSub
    /\ cmdline \in CmdLines
    /\ ast = "start"
    /\ InitNoDisp
    /\ InitNoEnv
    /\ InitNoStart
    /\ InitNoRun
    /\ InitNoLoop
    /\ InitNoLate

NextArgs ==
    \/ P_Parse /\ UNCHANGED <<logVars, tailVars, curVars, subVars, dispVars, envVars, startVars, runVars, loopVars, lateVars>>
    \/ P_Filter /\ UNCHANGED <<logVars, tailVars, curVars, subVars, dispVars, envVars, startVars, runVars, loopVars, lateVars>>
    \/ P_Open /\ UNCHANGED <<logVars, tailVars, curVars, subVars, dispVars, envVars, startVars, runVars, loopVars, lateVars>>

SpecArgs == InitArgs /\ [][NextArgs]_vars

\* The hub's sender thread handles request lines from the outbound pipe.
InitDispatch ==
    /\ InitFs
    /\ InitWriters
    /\ InitNoTail
    /\ InitHub(NoFile)
    /\ textual = FALSE
    /\ \E g \in {0, RecLen} : threshold = [L \in Logs |-> IF L = "global" THEN g ELSE 0]
    /\ peers = Keys
    /\ kinds = [t \in Threads |-> IF t = "ingest" THEN {"received"} ELSE {"sent", "status"}]
    /\ InitNoSub
    /\ InitNoArgs
    /\ InitNoEnv
    /\ InitNoStart
    /\ InitNoRun
    /\ InitNoLoop
    /\ InitNoLate
    /\ dpc = "head"
    /\ fifo = <<>>
    /\ dcmd = NotRequest("garbage")
    /\ dresp = NoSend
    /\ drec = 0
    /\ aliases \in BOOLEAN

\* one step of the sender thread itself
DispatchStep ==
    \/ (D_Head \/ D_Getline \/ D_Parse \/ D_Send \/ D_Meta \/ D_Done)
          /\ UNCHANGED <<logVars, tailVars, curVars, subVars, argVars, envVars, startVars, runVars, loopVars, lateVars>>
    \/ D_Event /\ UNCHANGED <<tailVars, curVars, subVars, argVars, envVars, startVars, runVars, loopVars, lateVars>>
    \/ (RS_Lock("dispatch") \/ RS_Write("dispatch") \/ RS_Rotate("dispatch")
          \/ RS_Reopen("dispatch") \/ PCL_Lock("dispatch") \/ PCL_Write("dispatch")
          \/ PCL_Rotate("dispatch"))
          /\ UNCHANGED <<tailVars, curVars, auxVars>>

NextDispatch ==
    \/ D_Head /\ UNCHANGED <<logVars, tailVars, curVars, subVars, argVars, envVars, startVars, runVars, loopVars, lateVars>>
    \/ D_Arrive /\ UNCHANGED <<logVars, tailVars, curVars, subVars, argVars, envVars, startVars, runVars, loopVars, lateVars>>
    \/ D_Getline /\ UNCHANGED <<logVars, tailVars, curVars, subVars, argVars, envVars, startVars, runVars, loopVars, lateVars>>
    \/ D_Parse /\ UNCHANGED <<logVars, tailVars, curVars, subVars, argVars, envVars, startVars, runVars, loopVars, lateVars>>
    \/ D_Send /\ UNCHANGED <<logVars, tailVars, curVars, subVars, argVars, envVars, startVars, runVars, loopVars, lateVars>>
    \/ D_Meta /\ UNCHANGED <<logVars, tailVars, curVars, subVars, argVars, envVars, startVars, runVars, loopVars, lateVars>>
    \/ D_Event /\ UNCHANGED <<tailVars, curVars, subVars, argVars, envVars, startVars, runVars, loopVars, lateVars>>
    \/ RS_Lock("dispatch") /\ UNCHANGED <<tailVars, curVars, auxVars>>
    \/ RS_Write("dispatch") /\ UNCHANGED <<tailVars, curVars, auxVars>>
    \/ RS_Rotate("dispatch") /\ UNCHANGED <<tailVars, curVars, auxVars>>
    \/ RS_Reopen("dispatch") /\ UNCHANGED <<tailVars, curVars, auxVars>>
    \/ PCL_Lock("dispatch") /\ UNCHANGED <<tailVars, curVars, auxVars>>
    \/ PCL_Write("dispatch") /\ UNCHANGED <<tailVars, curVars, auxVars>>
    \/ PCL_Rotate("dispatch") /\ UNCHANGED <<tailVars, curVars, auxVars>>
    \/ D_Done /\ UNCHANGED <<logVars, tailVars, curVars, subVars, argVars, envVars, startVars, runVars, loopVars, lateVars>>

SpecDispatch == InitDispatch /\ [][NextDispatch]_vars

\* the sender thread is scheduled again and again; request lines arrive or not
SpecDispatchFair == SpecDispatch /\ WF_vars(DispatchStep)

\* The hub's receiver loop processes the envelopes of 2xx responses.
InitEnvelope ==
    /\ InitFs
    /\ InitWriters
    /\ InitNoTail
    /\ InitHub(NoFile)
    /\ textual = FALSE
    /\ \E g \in {0, RecLen} : threshold = [L \in Logs |-> IF L = "global" THEN g ELSE 0]
    /\ peers = Keys
    /\ kinds = [t \in Threads |-> IF t = "ingest" THEN {"received", "status"} ELSE {"sent"}]
    /\ InitNoSub
    /\ InitNoArgs
    /\ InitNoDisp
    /\ InitNoStart
    /\ InitNoRun
    /\ InitNoLoop
    /\ InitNoLate
    /\ epc = "poll"
    /\ eresp = [top |-> "object", items |-> <<>>]
    /\ eidx = 1
    /\ erec = <<>>
    /\ esince = 0

NextEnvelope ==
    \/ E_Poll /\ UNCHANGED <<logVars, tailVars, curVars, subVars, argVars, dispVars, startVars, runVars, loopVars, lateVars>>
    \/ E_Skip /\ UNCHANGED <<logVars, tailVars, curVars, subVars, argVars, dispVars, startVars, runVars, loopVars, lateVars>>
    \/ E_Throw /\ UNCHANGED <<logVars, tailVars, curVars, subVars, argVars, dispVars, startVars, runVars, loopVars, lateVars>>
    \/ E_Append /\ UNCHANGED <<tailVars, curVars, subVars, argVars, dispVars, startVars, runVars, loopVars, lateVars>>
    \/ E_Store /\ UNCHANGED <<logVars, tailVars, curVars, subVars, argVars, dispVars, startVars, runVars, loopVars, lateVars>>
    \/ RS_Lock("ingest") /\ UNCHANGED <<tailVars, curVars, auxVars>>
    \/ RS_Write("ingest") /\ UNCHANGED <<tailVars, curVars, auxVars>>
    \/ RS_Rotate("ingest") /\ UNCHANGED <<tailVars, curVars, auxVars>>
    \/ RS_Reopen("ingest") /\ UNCHANGED <<tailVars, curVars, auxVars>>
    \/ PCL_Lock("ingest") /\ UNCHANGED <<tailVars, curVars, auxVars>>
    \/ PCL_Write("ingest") /\ UNCHANGED <<tailVars, curVars, auxVars>>
    \/ PCL_Rotate("ingest") /\ UNCHANGED <<tailVars, curVars, auxVars>>

SpecEnvelope == InitEnvelope /\ [][NextEnvelope]_vars

\* The hub starts and runs with a Global log that may fail to open.
InitStart ==
    /\ InitFs
    /\ InitWriters
    /\ InitNoTail
    /\ InitNoCursor
    /\ threshold = [L \in Logs |-> 0]
    /\ peers = Keys
    /\ kinds = [t \in Threads |-> IF t = "ingest" THEN {"received"} ELSE {"sent"}]
    /\ InitNoSub
    /\ InitNoArgs
    /\ InitNoDisp
    /\ InitNoEnv
    /\ InitNoRun
    /\ InitNoLoop
    /\ InitNoLate
    /\ bpc = "logs"
    /\ gcan \in {"ok", "nodir", "nofile"}
    /\ metaok \in BOOLEAN
    /\ gopen = FALSE
    /\ bcalls = 0
    /\ bsaved = FALSE
    /\ blost = 0
    /\ startfail = FALSE

NextStart ==
    \/ B_Logs /\ UNCHANGED <<logVars, tailVars, curVars, subVars, argVars, dispVars, envVars, runVars, loopVars, lateVars>>
    \/ B_Meta /\ UNCHANGED <<logVars, tailVars, curVars, subVars, argVars, dispVars, envVars, runVars, loopVars, lateVars>>
    \/ B_Load /\ UNCHANGED <<logVars, tailVars, curVars, subVars, argVars, dispVars, envVars, runVars, loopVars, lateVars>>
    \/ B_Call /\ UNCHANGED <<logVars, tailVars, curVars, subVars, argVars, dispVars, envVars, runVars, loopVars, lateVars>>
    \/ B_Append /\ UNCHANGED <<logVars, tailVars, curVars, subVars, argVars, dispVars, envVars, runVars, loopVars, lateVars>>
    \/ B_Rotate /\ UNCHANGED <<logVars, tailVars, curVars, subVars, argVars, dispVars, envVars, runVars, loopVars, lateVars>>
    \/ B_Save /\ UNCHANGED <<logVars, tailVars, curVars, subVars, argVars, dispVars, envVars, runVars, loopVars, lateVars>>
    \/ B_Env /\ UNCHANGED <<logVars, tailVars, curVars, subVars, argVars, dispVars, envVars, runVars, loopVars, lateVars>>

SpecStart == InitStart /\ [][NextStart]_vars

\* wa-runner runs one command: after fork, with the child running.
InitRun ==
    /\ InitFs
    /\ InitWriters
    /\ InitNoTail
    /\ InitNoCursor
    /\ threshold = [L \in Logs |-> 0]
    /\ peers = Keys
    /\ kinds = [t \in Threads |-> IF t = "ingest" THEN {"received"} ELSE {"sent"}]
    /\ InitNoSub
    /\ InitNoArgs
    /\ InitNoDisp
    /\ InitNoEnv
    /\ InitNoStart
    /\ InitNoLoop
    /\ InitNoLate
    /\ rpc = "wait"
    /\ child \in Children
    /\ kst = "run"
    /\ kwrote = FALSE
    /\ pavail = [f \in Fds |-> FALSE]
    /\ rset = [f \in Fds |-> FALSE]
    /\ elapsed = 0
    /\ timeout_sec \in Timeouts

NoRunFrame == UNCHANGED <<logVars, tailVars, curVars, subVars, argVars, dispVars, envVars, startVars, loopVars, lateVars>>

\* one step of run_argv itself
RunStep ==
    (R_Wait \/ R_Select \/ R_ReadOut \/ R_ReadErr \/ R_Check \/ R_DrainOut \/ R_DrainErr)
        /\ NoRunFrame

NextRun ==
    \/ R_Wait /\ NoRunFrame
    \/ R_Select /\ NoRunFrame
    \/ R_ReadOut /\ NoRunFrame
    \/ R_ReadErr /\ NoRunFrame
    \/ R_Check /\ NoRunFrame
    \/ R_DrainOut /\ NoRunFrame
    \/ R_DrainErr /\ NoRunFrame
    \/ K_Write /\ NoRunFrame
    \/ K_Exit /\ NoRunFrame
    \/ R_Tick /\ NoRunFrame

SpecRun == InitRun /\ [][NextRun]_vars

\* run_argv and the child are scheduled, and time passes
SpecRunFair ==
    /\ SpecRun
    /\ WF_vars(RunStep)
    /\ WF_vars(K_Exit /\ NoRunFrame)
    /\ WF_vars(R_Tick /\ NoRunFrame)

\* wa-runner's event loop handles one line of wa-sub's output.
InitLoop ==
    /\ InitFs
    /\ InitWriters
    /\ InitNoTail
    /\ InitNoCursor
    /\ threshold = [L \in Logs |-> 0]
    /\ peers = Keys
    /\ kinds = [t \in Threads |-> IF t = "ingest" THEN {"received"} ELSE {"sent"}]
    /\ InitNoSub
    /\ InitNoArgs
    /\ InitNoDisp
    /\ InitNoEnv
    /\ InitNoStart
    /\ InitNoRun
    /\ InitNoLate
    /\ qpc = "read"
    /\ qev \in RunnerEvents
    /\ cmdmap \in CmdMaps
    /\ auto_reply \in BOOLEAN
    /\ qspawned = 0
    /\ qlog = <<>>
    /\ qreply = 0

NoLoopFrame ==
    UNCHANGED <<logVars, tailVars, curVars, subVars, argVars, dispVars, envVars, startVars,
                runVars, lateVars>>

NextLoop ==
    \/ Q_Parse /\ NoLoopFrame
    \/ Q_Unknown /\ NoLoopFrame
    \/ Q_Spawn /\ NoLoopFrame
    \/ Q_Log /\ NoLoopFrame
    \/ Q_Reply /\ NoLoopFrame

SpecLoop == InitLoop /\ [][NextLoop]_vars

\* The hub's two threads appending records of two peers, under each pair of
\* rotation thresholds.
InitPeers ==
    /\ InitFs
    /\ InitWriters
    /\ InitNoTail
    /\ InitNoCursor
    /\ InitNoAux
    /\ \E gp \in ThresholdPairs :
          threshold = [L \in Logs |-> IF L = "global" THEN gp[1] ELSE gp[2]]
    /\ peers = Keys
    /\ kinds = [t \in Threads |-> IF t = "ingest" THEN {"received"} ELSE {"sent"}]

SpecPeers == InitPeers /\ [][NextLog]_vars

\* ------------------------------------------------------ reading the log files

\* every byte is at its place in a line and belongs to the record that began the line
Whole(d) ==
    \A i \in DOMAIN d :
        LET k == (i - 1) % RecLen
        IN d[i] = <<d[i - k][1], k + 1>>

\* the record id of each line of d (the last line may be incomplete)
LineIds(d) == [j \in 1..((Len(d) + RecLen - 1) \div RecLen) |-> d[(j - 1) * RecLen + 1][1]]

RECURSIVE Archives(_, _)
Archives(L, S) ==
    IF S = {} THEN <<>>
    ELSE Content(Arch(L, MinOf(S))) \o Archives(L, S \ {MinOf(S)})

\* the bytes of log L on disk: its archives in rotation order, then the live file
OnDisk(L) == Archives(L, Stamps) \o Content(Path(L))

\* the records written to L since its last successful rotation
Generation(L) == SubSeq(flushed[L], rotAt[L] + 1, Len(flushed[L]))

\* ---------------------------------------------------------------- C1 .. C4
\* C1: the lines of a log on disk (archives in rotation order, then the live
\* file) are whole records, never interleaved, and stand in the order in which
\* their appends took the writer's mutex.
C1_SerializedOrder ==
    \A L \in Logs :
        LET d == OnDisk(L) IN
        /\ Whole(d)
        /\ LineIds(d) = Restrict(serial[L], Range(LineIds(d)))

\* both threads have appended to the Global log, and the record created later
\* took the mutex first
C1_Witness ==
    /\ Len(flushed["global"]) = 2
    /\ serial["global"][1] > serial["global"][2]
    /\ Len(OnDisk("global")) = 2 * RecLen

RotationDue(L) == threshold[L] > 0 /\ Len(Content(Path(L))) >= threshold[L]

C2_Step(t, L, rotpc, reopc) ==
    /\ (pc[t] = rotpc /\ pc'[t] # rotpc /\ RotationDue(L))
          => (pc'[t] = reopc /\ rot'[t] \in {"renamed", "failed"})
    /\ (pc[t] = rotpc /\ pc'[t] = reopc /\ rot'[t] = "renamed")
          => LET a == Arch(L, stamp'[t]) IN
             /\ RotationDue(L)
             /\ dir'[a] = dir[Path(L)]
             /\ dir'[Path(L)] = 0
             /\ \A n \in Names \ {a, Path(L)} : dir'[n] = dir[n]
             /\ data'[dir'[a]] = data[dir[Path(L)]]
             /\ Whole(data'[dir'[a]])
             /\ LineIds(data'[dir'[a]]) = Generation(L)
             /\ Generation(L)[Len(Generation(L))] = cur[t].id
    /\ (pc[t] = reopc /\ pc'[t] # reopc /\ rot[t] = "renamed")
          => LET a == Arch(L, stamp[t]) IN
             /\ dir'[Path(L)] # 0
             /\ data'[dir'[Path(L)]] = <<>>
             /\ \A n \in Names \ {Path(L)} : dir'[n] = dir[n] /\ dir'[n] # dir'[Path(L)]
             /\ data'[dir'[a]] = data[dir[a]]
             /\ cur[t].id \in Range(LineIds(data'[dir'[a]]))
             /\ mtx'[IF L = "global" THEN "global" ELSE "pcl"] = "none"

\* C2: with threshold > 0, an append that brings the size to >= threshold
\* attempts the rotation after its write; when the rename succeeds exactly one
\* archive name changes and it holds the records written since the previous
\* rotation up to and including the triggering one, and when the append
\* returns the original path names a new empty file.
C2_RotationArchivesGeneration ==
    [][\A t \in Threads :
          /\ C2_Step(t, "global", "g_rot", "g_reopen")
          /\ C2_Step(t, cur[t].key, "p_rot", "p_reopen")]_vars

\* an append to the Global log has just returned after archiving a generation of
\* two records
C2_Witness ==
    \E t \in Threads :
        /\ pc[t] = "p_lock"
        /\ rot[t] = "renamed"
        /\ Exists(Path("global"))
        /\ Content(Path("global")) = <<>>
        /\ Len(Content(Arch("global", stamp[t]))) = 2 * RecLen

\* C3: every record ever appended to a log is present, whole and exactly once,
\* in the live file and its archives.
C3_NoRecordLost ==
    \A L \in Logs :
        LET d == OnDisk(L) IN
        /\ Whole(d)
        /\ \A id \in Range(flushed[L]) :
              Cardinality({j \in DOMAIN LineIds(d) : LineIds(d)[j] = id}) = 1

C4_Step(t, L, wrpc, rotpc, reopc) ==
    /\ (pc[t] = rotpc /\ pc'[t] = reopc /\ rot'[t] = "failed")
          => (dir' = dir /\ data' = data)
    /\ (pc[t] = reopc /\ pc'[t] # reopc /\ rot[t] = "failed")
          => /\ dir' = dir
             /\ data' = data
             /\ Exists(Path(L))
             /\ ofs'[L] = dir[Path(L)]
             /\ LineIds(Content(Path(L))) = Generation(L)
             /\ pc'[t] \in {"p_lock", "idle"}
             /\ mtx'[IF L = "global" THEN "global" ELSE "pcl"] = "none"
    /\ (pc[t] = wrpc /\ written'[t] # written[t])
          => /\ Exists(Path(L))
             /\ dir' = dir
             /\ data'[dir[Path(L)]] = Append(data[dir[Path(L)]], NextByte(t))

\* C4: when the rename of a rotation fails, the append still returns, the file
\* at the original path is the same file with every record written to it, the
\* writer's handle is on that file, and every append writes at the end of the
\* file at the original path.
C4_RenameFailureKeepsFile ==
    [][\A t \in Threads :
          /\ C4_Step(t, "global", "g_write", "g_rot", "g_reopen")
          /\ C4_Step(t, cur[t].key, "p_write", "p_rot", "p_reopen")]_vars

\* after a failed rotation a later append is writing into the same file, which
\* is already over the threshold
C4_Witness ==
    \E t \in Threads :
        /\ pc[t] = "g_write"
        /\ written[t] >= 1
        /\ threshold["global"] > 0
        /\ Len(Content(Path("global"))) > threshold["global"]
        /\ \A s \in Stamps : ~Exists(Arch("global", s))

\* ---------------------------------------------------------------- C5 .. C6
\* the session has passed its start and is between two polls
Polling == tpc = "m_top"

\* the identity the session tracks is the identity of the file now at the path
TracksPath == Exists(Path(target)) /\ cur_inode = inode_of(target)

\* the ids of the complete lines of d
CompleteIds(d) == {d[q][1] : q \in {r \in DOMAIN d : d[r][2] = RecLen}}

\* the matching records that are complete in the file at the path
MatchingAtPath ==
    {id \in CompleteIds(Content(Path(target))) :
        args.kind # "" => recs[id].kind = args.kind}

\* the next poll finds nothing to read: the identity and the size of the file
\* at the path are the tracked identity and offset
Drained == Polling /\ TracksPath /\ offset = size_of(target)

\* C5: a session that began in generation G and polls after G was archived and
\* a new generation G' stands at the path has emitted every matching record of
\* G' by the time its polls find nothing more to read in G'.
C5_TailSurvivesRotation ==
    (Drained /\ tgen >= 0 /\ GenAtPath(target) > tgen)
        => MatchingAtPath \subseteq Range(out)

\* C6: a poll never hands an unterminated last line to the filter, and the
\* offset of a session that reads the file at the path from offset 0 stays at
\* a record boundary.
C6_PartialLineLeftForLaterPoll ==
    /\ ~partialSeen
    /\ (Polling /\ TracksPath /\ fromZero /\ offset <= size_of(target))
          => offset % RecLen = 0

\* ---------------------------------------------------------------- C7 .. C10
\* C7: at every step of save_since_state, and after a kill at any step, the
\* file at the canonical path is absent or holds one complete {since, updated}
\* object that some call of save_since_state wrote.
C7_CanonicalNeverPartial ==
    sfs["state"].ex =>
        \E v \in called, u \in Stamps : sfs["state"].text = dump(v, u)

\* the process was killed while the temp file held a part of the text, and the
\* canonical file holds an earlier save
C7_Witness ==
    /\ hpc = "down"
    /\ killed.in
    /\ sfs["tmp"].ex
    /\ Len(sfs["tmp"].text) \in 1..(DumpLen - 1)
    /\ sfs["state"].ex

\* C8: once save_since_state(v) has returned, and until it is called again,
\* load_since_state returns v, in the same process or after a kill.
C8_LoadReturnsSavedValue ==
    saved.has => load_since_state = Returned(saved.v)

BadCursorFile(f) ==
    \/ ~f.ex
    \/ ~ParsesJson(f.text)
    \/ ~IsObjectText(f.text)
    \/ ~HasKey(f.text, "since")
    \/ Field(f.text, "since").k # "int"

\* C10: load_since_state never ends the process, returns -1 for a
\* cursor-state file without a usable cursor, and main begins in CATCH_UP
\* exactly when load_since_state returned -1.
C10_SentinelAndInitialState ==
    /\ hpc # "terminated"
    /\ (hpc = "loaded" /\ BadCursorFile(sfs["state"])) => s0 = 0 - 1
    /\ start.mode # "none" => (start.mode = "CATCH_UP" <=> start.ret = 0 - 1)

\* C11: over a run of the ingestion loop, for any sequence of transport
\* responses, the in-memory cursor never decreases, and the since persisted in
\* the cursor-state file never decreases.
C11_CursorNeverDecreases ==
    [][ /\ (mode # "none" /\ hpc' # "down") => since' >= since
        /\ (sfs["state"].ex /\ sfs'["state"] # sfs["state"])
              => load_of(sfs'["state"]).v >= load_of(sfs["state"]).v ]_vars

\* C13: when a bulk pull of CATCH_UP gets a non-success response, the process
\* exits without entering LIVE (no long-poll is issued), and the persisted
\* cursor stays at the last value saved before the failure.
C13_PullFailureExits ==
    (hist.cu = "failed" /\ ~http_ok(hist.resp.code))
        => /\ mode # "LIVE"
           /\ hpc \notin {"lp", "lp_sleep", "append"}
           /\ (hist.saves # <<>> /\ sfs["state"].ex)
                 => load_since_state.v = hist.saves[Len(hist.saves)]

\* C14: in CATCH_UP with all pulls successful, pages 1..k-1 reporting
\* count > 0 and page k reporting count = 0: pull is invoked exactly k times,
\* each pull uses the next_since of the page before (the first uses 0), the
\* cursor is persisted exactly k times, once after each page, with
\* non-decreasing values, and the first long-poll is issued only after that.
C14_CatchUpPages ==
    /\ hist.cu = "running" => hpc \notin {"lp", "lp_sleep"}
    /\ hist.cu = "ended" =>
          LET k == Len(hist.pages) IN
          /\ hist.pages[k].zero
          /\ \A i \in 1..(k - 1) : ~hist.pages[i].zero
          /\ Len(hist.pulls) = k
          /\ hist.pulls[1] = 0
          /\ \A i \in 2..k : hist.pulls[i] = hist.pages[i - 1].next
          /\ Len(hist.saves) = k
          /\ \A i \in 1..k : hist.saves[i] = hist.pages[i].next
          /\ \A i \in 2..k : hist.saves[i] >= hist.saves[i - 1]

\* the records that a reader of d finds: the lines of d that parse as one record
ParsedIds(d) ==
    {d[q - 1][1] : q \in {r \in Newlines(d, 0) :
        LET below == {x \in Newlines(d, 0) : x < r}
            p == IF below = {} THEN 0 ELSE CHOOSE x \in below : \A y \in below : y <= x
        IN Parses(SubSeq(d, p + 1, r - 1))}}

\* the transport events whose records are in the Global log (archives and live file)
EventsInGlobal == {evrec[id] : id \in ParsedIds(OnDisk("global"))}

\* C12: the records of a response are appended and flushed before the cursor
\* returned with it is persisted, so at any time, also after a kill and a
\* restart, every event the transport delivered below the persisted cursor is
\* in the Global log.
C12_PersistedCursorCoversLog ==
    (sfs["state"].ex /\ textual)
        => \A e \in 1..load_since_state.v : e \in EventsInGlobal

\* C15: in LIVE, a long-poll that fails (a non-success status, or a success
\* status with a body that is not valid JSON) changes neither the in-memory
\* cursor nor the cursor-state file, starts no append and changes no log file,
\* and the loop goes on: the next long-poll is issued with the same since.
C15_FailedLongPollKeepsCursor ==
    [][ /\ (hpc = "lp" /\ hist'.resp.kind = "lp" /\ Failed(hist'.resp))
              => /\ since' = since
                 /\ sfs' = sfs
                 /\ fsVars' = fsVars
                 /\ nextId' = nextId
                 /\ pc' = pc
                 /\ hpc' \in {"lp", "lp_sleep"}
        /\ (hpc = "lp_sleep" /\ hpc' \notin {"lp_sleep", "down"})
              => /\ hpc' = "lp"
                 /\ since' = since
                 /\ sfs' = sfs ]_vars

\* a long-poll has just failed on a malformed body, after a cursor was saved
C15_Witness ==
    /\ mode = "LIVE"
    /\ hpc = "lp"
    /\ hist.resp = [kind |-> "lp", code |-> 200, json |-> FALSE]
    /\ since > 0
    /\ sfs["state"].ex
    /\ load_since_state.v = since

\* C16: a failed transport call (a non-success status or a malformed body, in
\* CATCH_UP or in LIVE) is followed by the next transport request only after
\* the backoff sleep has elapsed.
C16_RetryOnlyAfterBackoff ==
    [][ ( /\ hpc \in {"pull", "lp"}
          /\ hpc' \in {"append", "lp", "lp_sleep"}
          /\ hist'.resp.kind # "none"
          /\ (hist' # hist \/ hpc' # hpc)
          /\ Failed(hist.resp) )
        => hist.slept ]_vars

\* the record of line id passes the session's filters
Matches(id) ==
    /\ recs[id].kind = args.kind
    /\ args.has_since => recs[id].ts >= args.since_ts

\* C17: a single-match-or-timeout session ends with exit 0 exactly when it has
\* emitted one matching line, and with exit 1 exactly when the deadline passed
\* with nothing emitted; it never emits a second match and never reports the
\* timeout after a match.
C17_OnceOutcome ==
    /\ Len(out) <= 1
    /\ \A i \in DOMAIN out : Matches(out[i])
    /\ tpc = "done" <=> exitcode \in {0, 1}
    /\ exitcode = 0 <=> Len(out) = 1
    /\ exitcode = 1 <=> (tpc = "done" /\ out = <<>>)
    /\ exitcode = 1 => expired

\* the session has read a record that does not pass its filters and has ended
\* with exit 1 at its deadline, having emitted nothing
C17_Witness ==
    /\ a_once
    /\ args.has_since
    /\ exitcode = 1
    /\ expired
    /\ out = <<>>
    /\ offset = RecLen
    /\ Content(Path(target)) # <<>>
    /\ ~Matches(Content(Path(target))[1][1])

\* C18: a session in a bounded mode terminates once its duration has gone by,
\* whether the target is there at the start, is absent at the start,
\* disappears later, or is rotated during the session.
C18_BoundedSessionTerminates == <>(tpc = "done")

C20_WindowEmitsMatches ==
    args.mode = "window" =>
        /\ tpc = "done" => (exitcode = 0 /\ expired)
        /\ \A i \in DOMAIN out : Matches(out[i])
        /\ out = Restrict(serial["global"], Range(out))
        /\ (Drained /\ args.has_since)
              => \A id \in Range(flushed["global"]) : Matches(id) => id \in Range(out)

\* what the filter predicate is for a line that is a JSON object
KindHolds(j, f) == f.kind = "" \/ j.kind = Str(f.kind)

TsHolds(j, f) ==
    \/ ~f.has_since
    \/ j.ts = Missing /\ 0 >= f.since_ts
    \/ j.ts.k \in {"int", "float"} /\ j.ts.n >= f.since_ts

TextHolds(j, f) ==
    \/ ~f.has_re
    \/ regex_search(IF j.text.k = "str" THEN j.text.s ELSE "", f.re, f.icase)
          /\ j.text.k \in {"str", "missing"}

\* C21: for every line that parses as a JSON object and every filter,
\* match_line returns true exactly when the kind, the min-timestamp and the
\* pattern conditions all hold (missing ts as 0, missing text as empty), and
\* the same line with the same filter gives the same boolean again.
C21_MatchLineIsFilterPredicate ==
    /\ \A i \in 1..mpos :
          mfile[i].shape = "object" =>
              /\ mres[i] \in {"true", "false"}
              /\ mres[i] = "true" <=>
                    (KindHolds(mfile[i], mfilt) /\ TsHolds(mfile[i], mfilt)
                        /\ TextHolds(mfile[i], mfilt))
    /\ \A i, k \in 1..mpos : mfile[i] = mfile[k] => mres[i] = mres[k]

\* a line that cannot be read as an event record
NotARecord(j) ==
    \/ j.shape # "object"
    \/ j.kind.k \notin {"missing", "str"}
    \/ j.ts.k \notin {"missing", "int", "float"}
    \/ j.text.k \notin {"missing", "str"}

\* C26: a line that cannot be read as an event record never matches, whatever
\* the filter (the empty filter included), and never ends the session: the
\* lines after it are still read.
C26_BadLineNeverMatchesNorAborts ==
    /\ mst # "aborted"
    /\ \A i \in 1..mpos : NotARecord(mfile[i]) => mres[i] = "false"

\* the command line has a usage error
UsageError(a) ==
    \/ modes(a) # 1
    \/ a.once /\ a.timeout = "none"
    \/ ~a.file /\ ~a.peer
    \/ a.kind = "bogus"
    \/ a.grep = "badre"
    \/ a.since = "bad" \/ a.window = "bad" \/ a.timeout = "bad"

\* C22: a session started with a usage error ends with exit code 2 before the
\* target is opened; a valid command line never gives exit code 2.
C22_UsageErrorExits2 ==
    /\ UsageError(cmdline) => ast \in {"start", "parsed", "exit2"}
    /\ ~UsageError(cmdline) => ast # "exit2"

\* --------------------------------------------------------------- C23 .. C28
\* a request line with a non-empty destination and a non-empty text
Sendable(c) ==
    /\ c.shape = "object"
    /\ c.text \in {Str("hi")}
    /\ \/ c.to \in {Str("a"), Str("b")}
       \/ c.to = Missing /\ c.alias \in {Str("a")}

\* the number of terminated lines of d that carry record id
Occurrences(d, id) == Cardinality({q \in Newlines(d, 0) : q > 1 /\ d[q - 1][1] = id})

\* C23: once the sender thread is through with a request line that carries a
\* destination and a text (back at the loop head, or gone), the request has
\* exactly one record in the Global log and one in the Per-Peer log of the
\* resolved peer key, of kind "sent" when the send returned 2xx and of kind
\* "status" otherwise.
C23_EveryRequestRecorded ==
    (dpc \in {"head", "terminated"} /\ Sendable(dcmd))
        => /\ drec # 0
           /\ recs[drec].kind = (IF http_ok(dresp.code) THEN "sent" ELSE "status")
           /\ Occurrences(OnDisk("global"), drec) = 1
           /\ Occurrences(OnDisk(peer_key(alias_to_num(request_to(dcmd).v))), drec) = 1

\* C25: no line of the outbound pipe ends the process before a send, and a
\* line that is not a request with destination and text is skipped with no
\* send and no record.
C25_BadLineSkipped ==
    /\ ~(dpc = "terminated" /\ dresp = NoSend)
    /\ (dpc = "head" /\ ~Sendable(dcmd)) => (dresp = NoSend /\ drec = 0)

\* C28: the read of the pipe always returns, so the sender thread comes back
\* to the check of the running flag also while no request arrives.
C28_PipeReadReturns == (dpc = "getline") ~> (dpc # "getline")

\* C24: once the receiver loop is through with a 2xx response of valid JSON
\* (back at the poll, or gone), the process still runs, every well-formed text
\* message and status of the response has been appended, and the cursor has
\* been advanced.
C24_MalformedEntrySkipped ==
    (epc \in {"poll", "terminated"} /\ (eresp.items # <<>> \/ eresp.top # "object"))
        => /\ epc = "poll"
           /\ esince >= 1
           /\ \A k \in DOMAIN eresp.items :
                eresp.items[k] \in {"text_msg", "status"}
                    => erec[k] # 0

\* C27: a hub whose Global log did not open at its start goes no further than
\* its start: it issues no pull and no long-poll and persists no cursor; a
\* hub whose Global log opened at its start and failed to open later keeps
\* running.
C27_StartupOpenFailureFatal ==
    /\ startfail => (bpc \in {"meta", "terminated", "exit4"} /\ bcalls = 0 /\ ~bsaved)
    /\ (~startfail /\ blost > 0) => bpc \notin {"terminated", "exit4"}

\* C29: whatever the spawned command does, run_argv returns: the command is
\* killed once the command timeout has passed and the runner's event loop
\* gets control back.
C29_RunArgvReturns == <>(rpc = "returned")

\* --------------------------------------------------------------------- C30
\* an event of kind received whose text starts with a slash
SlashCommand(ev) ==
    /\ ev.shape = "object"
    /\ ev.kind = Str("received")
    /\ ev.text.k = "str"
    /\ Len(ev.text.s) > 0
    /\ ev.text.s[1] = "/"

\* the template the command of ev maps to, the sender's block first
TemplateOf(ev) ==
    resolve(IF ev.peer.k = "str" THEN ev.peer.s ELSE "", cmd_name(ev.text.s))

C31_OtherPeerNeverBlocked ==
    \A t, u \in Threads :
        (pc[t] = "p_lock" /\ pc[u] \in {"p_write", "p_rot", "p_reopen"})
            => cur[t].key = cur[u].key

\* C35: once no append is in progress, the records of a peer stand in its
\* Per-Peer log in the order in which they stand in the Global log.
C35_PeerLogOrderIsGlobalOrder ==
    (\A t \in Threads : pc[t] = "idle")
        => \A k \in Keys : flushed[k] = Restrict(flushed["global"], Range(flushed[k]))

\* C34: a log whose threshold is 0 is never rotated: no archive of it exists,
\* its stream stays open on the file at its path, and that file holds every
\* record appended to it, whole and in the order of the appends.
C34_ThresholdZeroNeverRotates ==
    \A L \in Logs :
        threshold[L] = 0 =>
            LET d == Content(Path(L)) IN
            /\ \A s \in Stamps : ~Exists(Arch(L, s))
            /\ rotAt[L] = 0
            /\ Exists(Path(L)) => ofs[L] = dir[Path(L)]
            /\ Whole(d)
            /\ Len(d) >= RecLen * Len(flushed[L])
            /\ SubSeq(LineIds(d), 1, Len(flushed[L])) = flushed[L]
            /\ LineIds(d) = SubSeq(serial[L], 1, Len(LineIds(d)))

\* both threads have appended to the Global log with its rotation disabled
C34_Witness ==
    /\ threshold["global"] = 0
    /\ Len(flushed["global"]) = 2
    /\ Len(Content(Path("global"))) = 2 * RecLen
    /\ \A t \in Threads : pc[t] = "idle"

\* ------------------------------------------------------- a follow session
\* the groups of auxVars other than the session history
OtherAux == <<subVars, argVars, dispVars, envVars, startVars, runVars, loopVars,
              fifoVars, aliasVars>>

\* the start position is taken: the history notes the records that are whole
\* in the file at this moment and the id of the next record the hub begins
F_Start ==
    /\ T_Start
    /\ startIds' = CompleteIds(Content(Path(target)))
    /\ startNext' = nextId
    /\ UNCHANGED <<scanOff, cut, logVars, curVars, OtherAux>>

\* the historical scan: the history notes the offset after the last line read
F_Scan ==
    /\ T_Scan
    /\ scanOff' = Len(Content(Path(target)))
    /\ UNCHANGED <<startIds, startNext, cut, logVars, curVars, OtherAux>>

\* One hub thread writes the logs while a session without deadline follows the
\* Global log with --kind received, with or without --since-ts.
InitFollow ==
    /\ \/ InitFs /\ InitWriters
       \/ InitFsAbsent /\ InitThreads
    /\ InitNoCursor
    /\ InitNoAux
    /\ \E g \in {0, RecLen} : threshold = [L \in Logs |-> IF L = "global" THEN g ELSE 0]
    /\ peers = {"a"}
    /\ kinds = [t \in Threads |-> IF t = "ingest" THEN {"received"} ELSE {"sent"}]
    /\ \E hs \in BOOLEAN :
          args = [mode |-> "follow", kind |-> "received", has_since |-> hs,
                  since_ts |-> IF hs THEN 1 ELSE 0]
    /\ tpc = "s_wait"
    /\ cur_inode = 0
    /\ offset = 0
    /\ ino = 0
    /\ sz = 0
    /\ pline = <<>>
    /\ out = <<>>
    /\ exitcode = -1
    /\ expired = FALSE
    /\ tgen = 0
    /\ fromZero = FALSE
    /\ partialSeen = FALSE

\* one step of the follow session's own thread
FollowStep ==
    \/ F_Start
    \/ F_Scan
    \/ /\ \/ T_Wait \/ T_Inode \/ T_ScanEnd
          \/ T_Top \/ T_Ino \/ T_Size \/ T_Read \/ T_Partial
       /\ UNCHANGED <<logVars, curVars, auxVars>>

NextFollow ==
    \/ Begin("ingest") /\ UNCHANGED <<tailVars, curVars, auxVars>>
    \/ RS_Lock("ingest") /\ UNCHANGED <<tailVars, curVars, auxVars>>
    \/ RS_Write("ingest") /\ UNCHANGED <<tailVars, curVars, auxVars>>
    \/ RS_Rotate("ingest") /\ UNCHANGED <<tailVars, curVars, auxVars>>
    \/ RS_Reopen("ingest") /\ UNCHANGED <<tailVars, curVars, auxVars>>
    \/ PCL_Lock("ingest") /\ UNCHANGED <<tailVars, curVars, auxVars>>
    \/ PCL_Write("ingest") /\ UNCHANGED <<tailVars, curVars, auxVars>>
    \/ PCL_Rotate("ingest") /\ UNCHANGED <<tailVars, curVars, auxVars>>
    \/ T_Wait /\ UNCHANGED <<logVars, curVars, auxVars>>
    \/ T_Inode /\ UNCHANGED <<logVars, curVars, auxVars>>
    \/ F_Start
    \/ F_Scan
    \/ T_ScanEnd /\ UNCHANGED <<logVars, curVars, auxVars>>
    \/ T_Top /\ UNCHANGED <<logVars, curVars, auxVars>>
    \/ T_Ino /\ UNCHANGED <<logVars, curVars, auxVars>>
    \/ T_Size /\ UNCHANGED <<logVars, curVars, auxVars>>
    \/ T_Read /\ UNCHANGED <<logVars, curVars, auxVars>>
    \/ T_Partial /\ UNCHANGED <<logVars, curVars, auxVars>>

SpecFollow == InitFollow /\ [][NextFollow]_vars

\* The session is scheduled again and again, and the hub finishes every append
\* it begins; it begins one whenever an event comes in, which may be never.
SpecFollowFair ==
    /\ SpecFollow
    /\ WF_vars(FollowStep)
    /\ WF_vars(AppendStep)

\* C32: with --since-ts the live phase starts at exactly the offset where the
\* historical scan stopped; without it no record that was whole in the file
\* when the start position was taken is ever emitted.
C32_StartPosition ==
    /\ [][(tpc = "scan_end" /\ tpc' = "m_top") => offset' = scanOff]_vars
    /\ [](~args.has_since => Range(out) \cap startIds = {})

\* ------------------------------------------ a log that is cut in place
\* Some other process truncates the file the session tracks (truncate(2),
\* ": > file") to m bytes (to nothing or to its first line), below the
\* session's offset, once and between two polls.  The hub's stream is in append mode: its next write goes to the new
\* end of the file.
X_Truncate ==
    /\ cut = "no"
    /\ tpc = "m_top"
    /\ Exists(Path(target))
    /\ cur_inode = inode_of(target)
    /\ \E m \in {0, RecLen} :
          /\ m < size_of(target)
          /\ m < offset
          /\ data' = [data EXCEPT ![dir[Path(target)]] = SubSeq(@, 1, m)]
          /\ cut' = "pending"
    /\ UNCHANGED <<dir, nextIno, freed, clock, cfgVars, wrVars, histVars>>
    /\ UNCHANGED <<startIds, startNext, scanOff, tailVars, curVars, OtherAux>>

\* the read of a poll; the history notes the first read after the cut
G_Read ==
    /\ T_Read
    /\ cut' = IF cut = "pending" THEN "read" ELSE cut
    /\ UNCHANGED <<startIds, startNext, scanOff, logVars, curVars, OtherAux>>

InitTrunc ==
    /\ InitFs
    /\ InitWriters
    /\ InitNoCursor
    /\ InitNoAux
    /\ \E g \in {0, RecLen} : threshold = [L \in Logs |-> IF L = "global" THEN g ELSE 0]
    /\ peers = {"a"}
    /\ kinds = [t \in Threads |-> IF t = "ingest" THEN {"received"} ELSE {"sent"}]
    /\ args = [mode |-> "follow", kind |-> "received", has_since |-> FALSE, since_ts |-> 0]
    /\ tpc = "s_wait"
    /\ cur_inode = 0
    /\ offset = 0
    /\ ino = 0
    /\ sz = 0
    /\ pline = <<>>
    /\ out = <<>>
    /\ exitcode = -1
    /\ expired = FALSE
    /\ tgen = 0
    /\ fromZero = FALSE
    /\ partialSeen = FALSE

NextTrunc ==
    \/ Begin("ingest") /\ UNCHANGED <<tailVars, curVars, auxVars>>
    \/ RS_Lock("ingest") /\ UNCHANGED <<tailVars, curVars, auxVars>>
    \/ RS_Write("ingest") /\ UNCHANGED <<tailVars, curVars, auxVars>>
    \/ RS_Rotate("ingest") /\ UNCHANGED <<tailVars, curVars, auxVars>>
    \/ RS_Reopen("ingest") /\ UNCHANGED <<tailVars, curVars, auxVars>>
    \/ PCL_Lock("ingest") /\ UNCHANGED <<tailVars, curVars, auxVars>>
    \/ PCL_Write("ingest") /\ UNCHANGED <<tailVars, curVars, auxVars>>
    \/ PCL_Rotate("ingest") /\ UNCHANGED <<tailVars, curVars, auxVars>>
    \/ X_Truncate
    \/ T_Wait /\ UNCHANGED <<logVars, curVars, auxVars>>
    \/ T_Inode /\ UNCHANGED <<logVars, curVars, auxVars>>
    \/ F_Start
    \/ T_Top /\ UNCHANGED <<logVars, curVars, auxVars>>
    \/ T_Ino /\ UNCHANGED <<logVars, curVars, auxVars>>
    \/ T_Size /\ UNCHANGED <<logVars, curVars, auxVars>>
    \/ G_Read
    \/ T_Partial /\ UNCHANGED <<logVars, curVars, auxVars>>

SpecTrunc == InitTrunc /\ [][NextTrunc]_vars

\* C33 (as amended): step 3 of a poll resets the tracked offset to 0 and sets
\* the tracked identity to the identity the poll queried exactly when that
\* identity differs from the tracked one or the size the poll queried is
\* smaller than the tracked offset, and otherwise leaves both unchanged; a poll
\* that queries the size of a file cut in place while it is still below the
\* offset resets the offset, and reads from byte 0 when the file is not empty.
C33_ResetIffQueriedChange ==
    [][(tpc = "m_size" /\ tpc' # "m_size") =>
        /\ IF ino # cur_inode \/ size_of(target) < offset
           THEN offset' = 0 /\ cur_inode' = ino
           ELSE offset' = offset /\ cur_inode' = cur_inode
        /\ (cut = "pending" /\ size_of(target) < offset)
              => /\ offset' = 0
                 /\ tpc' = IF size_of(target) > 0 THEN "m_read" ELSE "m_top"]_vars

\* C33 witness: the tracked file was cut in place below the offset and the
\* read of the next poll has started at byte 0 and emitted again what the
\* cut file holds
C33_Witness ==
    /\ cut = "read"
    /\ cur_inode = inode_of(target)
    /\ offset = RecLen
    /\ out = <<1, 2, 1>>

\* C33 (as stated): after the file is cut in place below the offset, the next
\* read starts at byte 0
C33_ReadAfterTruncationStartsAtZero ==
    (cut = "pending" /\ tpc = "m_read") => offset = 0

\* C36: in a follow session every matching record the hub begins to append
\* after the session took its start position is emitted at some later time,
\* whatever the interleaving of polls, appends and rotations (the sessions in
\* which a poll met an unterminated line are left aside here)
C36_LateRecordsEmitted ==
    \A id \in 1..MaxRecs :
        (/\ ~args.has_since
         /\ startNext > 0
         /\ id >= startNext
         /\ id \in Range(flushed["global"])
         /\ Matches(id))
            ~> (id \in Range(out) \/ partialSeen)

\* C37: a tailing session emits each record of the log at most once, whatever
\* the interleaving of a rotation with the steps of a poll
C37_EmitsAtMostOnce ==
    \A i, j \in DOMAIN out : i # j => out[i] # out[j]

\* ------------------------------------------------- the hub's send pipe
\* if(!fs::exists(fifo)) std::system("mkfifo " + fifo)
F_Mkfifo ==
    /\ fpc = "mkfifo"
    /\ fpc' = "open_r"
    /\ UNCHANGED extw

\* int fd_r = ::open(fifo.c_str(), O_RDONLY | O_CLOEXEC): without O_NONBLOCK
\* the open of the read end of a FIFO returns when the FIFO is open for writing
F_OpenRead ==
    /\ fpc = "open_r"
    /\ extw
    /\ fpc' = "open_w"
    /\ UNCHANGED extw

\* int fd_w_keepalive = ::open(fifo.c_str(), O_WRONLY | O_CLOEXEC): the read
\* end is open, the open returns at once
F_OpenWrite ==
    /\ fpc = "open_w"
    /\ fpc' = "fdopen"
    /\ UNCHANGED extw

\* FILE* fifo_in = fdopen(fd_r, "r"); main goes on to the logs
F_Fdopen ==
    /\ fpc = "fdopen"
    /\ fpc' = "opened"
    /\ bpc' = "logs"
    /\ UNCHANGED <<extw, gcan, metaok, gopen, bcalls, bsaved, blost, startfail>>

\* some other process opens the pipe for writing (echo ... > fifo)
X_WriterOpen ==
    /\ ~extw
    /\ extw' = TRUE
    /\ UNCHANGED fpc

\* the other process closes the pipe
X_WriterClose ==
    /\ extw
    /\ extw' = FALSE
    /\ UNCHANGED fpc

NoFifoFrame ==
    UNCHANGED <<logVars, tailVars, curVars, subVars, argVars, dispVars, envVars, runVars,
                loopVars, ghostVars, aliasVars>>

\* the hub is started on an existing or a missing pipe that no process has open
InitFifo ==
    /\ InitFs
    /\ InitWriters
    /\ InitNoTail
    /\ InitNoCursor
    /\ threshold = [L \in Logs |-> 0]
    /\ peers = Keys
    /\ kinds = [t \in Threads |-> IF t = "ingest" THEN {"received"} ELSE {"sent"}]
    /\ InitNoSub
    /\ InitNoArgs
    /\ InitNoDisp
    /\ InitNoEnv
    /\ InitNoRun
    /\ InitNoLoop
    /\ InitNoGhost
    /\ InitNoAlias
    /\ fpc = "mkfifo"
    /\ extw = FALSE
    /\ bpc = "stopped"
    /\ gcan \in {"ok", "nodir", "nofile"}
    /\ metaok \in BOOLEAN
    /\ gopen = FALSE
    /\ bcalls = 0
    /\ bsaved = FALSE
    /\ blost = 0
    /\ startfail = FALSE

\* one step of the hub's main thread
HubStartStep ==
    \/ F_Mkfifo /\ UNCHANGED startVars /\ NoFifoFrame
    \/ F_OpenRead /\ UNCHANGED startVars /\ NoFifoFrame
    \/ F_OpenWrite /\ UNCHANGED startVars /\ NoFifoFrame
    \/ F_Fdopen /\ NoFifoFrame
    \/ NextStart

NextFifo ==
    \/ F_Mkfifo /\ UNCHANGED startVars /\ NoFifoFrame
    \/ F_OpenRead /\ UNCHANGED startVars /\ NoFifoFrame
    \/ F_OpenWrite /\ UNCHANGED startVars /\ NoFifoFrame
    \/ F_Fdopen /\ NoFifoFrame
    \/ X_WriterOpen /\ UNCHANGED startVars /\ NoFifoFrame
    \/ X_WriterClose /\ UNCHANGED startVars /\ NoFifoFrame
    \/ B_Logs /\ UNCHANGED <<logVars, tailVars, curVars, subVars, argVars, dispVars, envVars, runVars, loopVars, lateVars>>
    \/ B_Meta /\ UNCHANGED <<logVars, tailVars, curVars, subVars, argVars, dispVars, envVars, runVars, loopVars, lateVars>>
    \/ B_Load /\ UNCHANGED <<logVars, tailVars, curVars, subVars, argVars, dispVars, envVars, runVars, loopVars, lateVars>>
    \/ B_Call /\ UNCHANGED <<logVars, tailVars, curVars, subVars, argVars, dispVars, envVars, runVars, loopVars, lateVars>>
    \/ B_Append /\ UNCHANGED <<logVars, tailVars, curVars, subVars, argVars, dispVars, envVars, runVars, loopVars, lateVars>>
    \/ B_Rotate /\ UNCHANGED <<logVars, tailVars, curVars, subVars, argVars, dispVars, envVars, runVars, loopVars, lateVars>>
    \/ B_Save /\ UNCHANGED <<logVars, tailVars, curVars, subVars, argVars, dispVars, envVars, runVars, loopVars, lateVars>>
    \/ B_Env /\ UNCHANGED <<logVars, tailVars, curVars, subVars, argVars, dispVars, envVars, runVars, loopVars, lateVars>>

SpecFifo == InitFifo /\ [][NextFifo]_vars

\* The hub's main thread is scheduled again and again; other processes open
\* the pipe or never do.
SpecFifoFair == SpecFifo /\ WF_vars(HubStartStep)

\* C38: the start of the hub gets past the opening of the pipe (read end, then
\* keepalive writer) without any other process ever opening the pipe
C38_StartNeedsNoOtherProcess == <>(extw \/ fpc = "opened")

\* ---------------------------------- the hub without rotation (wa_hub.cpp)
\* json ev = { {"ts", ts}, {"kind", ...}, {"peer", peer}, ... };
\* global << ev.dump() << '\n';  global is the std::ofstream that main opened
\* and that the sender thread and the receiver loop share; no mutex is taken.
WH_Begin(t) ==
    /\ pc[t] = "idle"
    /\ nextId <= MaxRecs
    /\ \E k \in peers : cur' = [cur EXCEPT ![t] = [id |-> nextId, key |-> k]]
    /\ \E kd \in kinds[t] : recs' = [recs EXCEPT ![nextId] = [kind |-> kd, ts |-> nextId]]
    /\ nextId' = nextId + 1
    /\ pc' = [pc EXCEPT ![t] = "g_write"]
    /\ written' = [written EXCEPT ![t] = 0]
    /\ serial' = [serial EXCEPT !["global"] = Append(@, nextId)]
    /\ UNCHANGED <<fsVars, clock, cfgVars, ofs, mtx, stamp, rot, flushed, rotAt>>

\* global << ev.dump() << '\n'; global.flush(): one step per byte.  While the
\* other thread is inside its own write the two calls race on the stream's
\* buffer: the byte lands after the other thread's bytes, or is lost.
WH_Write(t) ==
    /\ pc[t] = "g_write"
    /\ \/ data' = [data EXCEPT ![ofs["global"]] = Append(@, NextByte(t))]
       \/ /\ \E u \in Threads \ {t} : pc[u] = "g_write"
          /\ UNCHANGED data
    /\ written' = [written EXCEPT ![t] = @ + 1]
    /\ IF written[t] + 1 = RecLen
       THEN /\ pc' = [pc EXCEPT ![t] = "p_lock"]
            /\ flushed' = [flushed EXCEPT !["global"] = Append(@, cur[t].id)]
       ELSE UNCHANGED <<pc, flushed>>
    /\ UNCHANGED <<dir, nextIno, freed, clock, cfgVars, ofs, mtx, cur, recs, stamp, rot,
                   nextId, serial, rotAt>>

\* PerContactLogs::append: std::lock_guard<std::mutex> lk(m); stream_for(key)
WH_PclLock(t) ==
    /\ pc[t] = "p_lock"
    /\ lock_guard("pcl")
    /\ mtx' = [mtx EXCEPT !["pcl"] = t]
    /\ IF ofs[cur[t].key] # 0
       THEN UNCHANGED <<fsVars, ofs>>
       ELSE \E i \in AllocChoices : ofstream_open_app(cur[t].key, i)
    /\ serial' = [serial EXCEPT ![cur[t].key] = Append(@, cur[t].id)]
    /\ written' = [written EXCEPT ![t] = 0]
    /\ pc' = [pc EXCEPT ![t] = "p_write"]
    /\ UNCHANGED <<clock, cfgVars, cur, recs, stamp, rot, nextId, flushed, rotAt>>

\* s << line.dump() << '\n'; s.flush(); the lock is released at the return
WH_PclWrite(t) ==
    /\ pc[t] = "p_write"
    /\ data' = [data EXCEPT ![ofs[cur[t].key]] = Append(@, NextByte(t))]
    /\ written' = [written EXCEPT ![t] = @ + 1]
    /\ IF written[t] + 1 = RecLen
       THEN /\ pc' = [pc EXCEPT ![t] = "idle"]
            /\ mtx' = [mtx EXCEPT !["pcl"] = "none"]
            /\ flushed' = [flushed EXCEPT ![cur[t].key] = Append(@, cur[t].id)]
       ELSE UNCHANGED <<pc, mtx, flushed>>
    /\ UNCHANGED <<dir, nextIno, freed, clock, cfgVars, ofs, cur, recs, stamp, rot,
                   nextId, serial, rotAt>>

\* main has opened the Global log; the receiver loop logs received messages
\* and the sender thread sent ones, of the same peer
InitPlain ==
    /\ InitFs
    /\ InitWriters
    /\ InitNoTail
    /\ InitNoCursor
    /\ InitNoAux
    /\ threshold = [L \in Logs |-> 0]
    /\ peers = {"a"}
    /\ kinds = [t \in Threads |-> IF t = "ingest" THEN {"received"} ELSE {"sent"}]

NextPlain ==
    \/ \E t \in Threads : WH_Begin(t) /\ UNCHANGED <<tailVars, curVars, auxVars>>
    \/ \E t \in Threads : WH_Write(t) /\ UNCHANGED <<tailVars, curVars, auxVars>>
    \/ \E t \in Threads : WH_PclLock(t) /\ UNCHANGED <<tailVars, curVars, auxVars>>
    \/ \E t \in Threads : WH_PclWrite(t) /\ UNCHANGED <<tailVars, curVars, auxVars>>

SpecPlain == InitPlain /\ [][NextPlain]_vars

\* C39: in the hub without rotation the sender thread and the receiver loop
\* are never both inside a write of the shared Global stream, and every line
\* of the Global log is one whole record
C39_GlobalWritesExclusive ==
    /\ ~(\A t \in Threads : pc[t] = "g_write")
    /\ Whole(Content(Path("global")))

\* ------------------------------------------------------- alias resolution
\* the keys of the aliases object in the order nlohmann::json iterates them
\* (its object is a std::map: sorted by key)
AliasOrder == <<"amy", "bob", "cat">>
AliasNames == Range(AliasOrder)
\* peer identifiers (numbers)
Idents == {"1", "2"}
\* an aliases file: each alias maps to an identifier or has no (string) entry
AliasTables == [AliasNames -> Idents \cup {"absent"}]

MaxOf(S) == CHOOSE x \in S : \A y \in S : y <= x

\* wa-sub, map_number_to_alias(aliases_path, in): scan returns the first key
\* whose value is in; in itself when there is none
map_number_to_alias(tab, in) ==
    LET hits == {i \in DOMAIN AliasOrder : tab[AliasOrder[i]] = in}
    IN IF hits = {} THEN in ELSE AliasOrder[MinOf(hits)]

\* hub, load_aliases: add(a, n) for every entry in iteration order,
\* A.alias_to_num[a] = n; A.num_to_alias[n] = a; a later entry replaces an
\* earlier one of the same number
load_aliases(tab) ==
    [alias_to_num |-> [a \in {x \in AliasNames : tab[x] # "absent"} |-> tab[a]],
     num_to_alias |->
        [n \in {tab[x] : x \in {y \in AliasNames : tab[y] # "absent"}} |->
            AliasOrder[MaxOf({i \in DOMAIN AliasOrder : tab[AliasOrder[i]] = n})]]]

\* hub, peer_key(A, number)
hub_peer_key(A, number) ==
    IF number \in DOMAIN A.num_to_alias THEN A.num_to_alias[number] ELSE number

\* hub: the key of the records of the peer that x names; a request names its
\* peer by alias or number (if(A.alias_to_num.count(to)) to = A.alias_to_num[to]),
\* a received message by number
hub_key_of(tab, x) ==
    LET A == load_aliases(tab)
        number == IF x \in DOMAIN A.alias_to_num THEN A.alias_to_num[x] ELSE x
    IN hub_peer_key(A, number)

\* wa-sub: std::string key = map_number_to_alias(c.aliases_path, a.peer)
A_Sub ==
    /\ akey = "none"
    /\ akey' = map_number_to_alias(atab, ain)
    /\ UNCHANGED <<atab, ain, hkey>>

\* hub: std::string peer = peer_key(A, to) when it logs a record of that peer
A_Hub ==
    /\ hkey = "none"
    /\ hkey' = hub_key_of(atab, ain)
    /\ UNCHANGED <<atab, ain, akey>>

NoAliasFrame ==
    UNCHANGED <<logVars, tailVars, curVars, subVars, argVars, dispVars, envVars, startVars,
                runVars, loopVars, ghostVars, fifoVars>>

InitAlias ==
    /\ InitFs
    /\ InitWriters
    /\ InitNoTail
    /\ InitNoCursor
    /\ threshold = [L \in Logs |-> 0]
    /\ peers = Keys
    /\ kinds = [t \in Threads |-> IF t = "ingest" THEN {"received"} ELSE {"sent"}]
    /\ InitNoSub
    /\ InitNoArgs
    /\ InitNoDisp
    /\ InitNoEnv
    /\ InitNoStart
    /\ InitNoRun
    /\ InitNoLoop
    /\ InitNoGhost
    /\ InitNoFifo
    /\ atab \in AliasTables
    /\ ain \in Idents \cup AliasNames
    /\ akey = "none"
    /\ hkey = "none"

NextAlias ==
    \/ A_Sub /\ NoAliasFrame
    \/ A_Hub /\ NoAliasFrame

SpecAlias == InitAlias /\ [][NextAlias]_vars

\* C40: for every alias table and every identifier or alias given to wa-sub as
\* its peer target, the key wa-sub resolves is the key under which the hub
\* writes that peer's records
C40_SubKeyIsHubKey ==
    (akey # "none" /\ hkey # "none") => akey = hkey

====
